---- MODULE Spec2Model ----
(***************************************************************************)
(* kg_mcp (src/server.py): a knowledge graph kept in four SQLite tables    *)
(* (nodes, edges, state, documents) behind one handler per tool.  Every    *)
(* handler opens its own connection, runs its statements in one            *)
(* transaction, commits at its end, and closes; an exception before the    *)
(* commit rolls the transaction back.                                      *)
(*                                                                         *)
(* Representation.  A table is the set of its rows.  Strings whose         *)
(* characters the code looks at (domain, LIKE patterns, state values,      *)
(* document content) are sequences of one-character strings; the other     *)
(* text columns are TLA+ strings.  A JSON text is a record                 *)
(* [empty, ws, body]: empty = the Python string "", ws = written with      *)
(* insignificant whitespace, body = what it denotes (a list, or an object  *)
(* as its sequence of <<key, value>> pairs in textual order).  REAL        *)
(* weights are integers; time.time() is the variable clock.                *)
(*                                                                         *)
(* A handler is a coroutine without an await: within one server process    *)
(* it runs from its first statement to its last with no other handler in   *)
(* between, which is what the actions named after the tools model.  Server *)
(* processes started on the same database file share nothing but the      *)
(* file: calls holds, per process, the handler it is in and what that      *)
(* handler has read so far, and the actions of the section on overlapping  *)
(* callers take one SQL statement (one write transaction) each.  done is   *)
(* the history of what those callers have committed.                       *)
(***************************************************************************)
EXTENDS Integers, Sequences, FiniteSets, TLC

VARIABLES nodes, edges, state, documents, clock, last, calls, done

vars == <<nodes, edges, state, documents, clock, last, calls, done>>

(* ------------------------------ bounds --------------------------------- *)

\* time.time() is read as clock; the clock stops advancing at MaxClock.
MaxClock == 2

\* Largest hop count handed to kg_get and kg_traverse.
MaxHops == 3

\* kg_boot is not called once the stored session_count has reached this.
MaxSessions == 11

\* kg_doc_append is not called on a document whose content it would make
\* longer than this.
MaxContent == 7

\* Overlapping callers start no further kg_boot, and no further
\* kg_doc_append, once this many of them have committed.
MaxCalls == 2

(* ------------------------------ helpers -------------------------------- *)

RECURSIVE SetToSeq(_)
\* The rows of a result set in the order the store returns them (a SELECT
\* without ORDER BY, a Python set's iteration): some fixed order.
SetToSeq(S) ==
    IF S = {} THEN <<>>
    ELSE LET x == CHOOSE y \in S : TRUE IN <<x>> \o SetToSeq(S \ {x})

Range(s) == {s[i] : i \in DOMAIN s}

Min(a, b) == IF a <= b THEN a ELSE b

(* ------------------------------- JSON ---------------------------------- *)

\* The Python string "".
EmptyText == [empty |-> TRUE, ws |-> FALSE, body |-> <<>>]

\* The texts "[]" and "{}" (the parameters' defaults), and the same
\* with whitespace inside.
BareText == [empty |-> FALSE, ws |-> FALSE, body |-> <<>>]

SpacedText == [empty |-> FALSE, ws |-> TRUE, body |-> <<>>]

\* A compact text denoting body.
Text(body) == [empty |-> FALSE, ws |-> FALSE, body |-> body]

\* Python truth of a str.
Truthy(t) == ~t.empty

\* json.loads of a list text.
JsonLoadsList(t) == t.body

\* The keys of a dict (a dict is its pairs in insertion order).
DictKeys(d) == {d[i][1] : i \in DOMAIN d}

\* d[k] = v on a Python dict: an existing key keeps its place.
DictSet(d, k, v) ==
    IF k \in DictKeys(d)
    THEN [i \in DOMAIN d |-> IF d[i][1] = k THEN <<k, v>> ELSE d[i]]
    ELSE Append(d, <<k, v>>)

RECURSIVE DictUpdate_Replace(_, _)
\* (mutant) the update replaces the stored map wholesale.
DictUpdate_Replace(old, md) ==
    IF md = <<>> THEN <<>>
    ELSE DictSet(DictUpdate_Replace(old, SubSeq(md, 1, Len(md) - 1)),
                 md[Len(md)][1], md[Len(md)][2])

RECURSIVE DictUpdate(_, _)
\* old.update(md): the pairs of md laid over old, in md's order.
DictUpdate(old, md) ==
    IF md = <<>> THEN old
    ELSE DictSet(DictUpdate(old, SubSeq(md, 1, Len(md) - 1)),
                 md[Len(md)][1], md[Len(md)][2])

\* json.loads of an object text: a repeated key keeps its last value.
JsonLoadsDict(t) == DictUpdate(<<>>, t.body)

\* json.dumps: the compact text of a value.
JsonDumps(v) == Text(v)

(* ------------------------- the store (SQLite) --------------------------- *)

\* A database image: what a connection sees and, on commit, writes back.
Db == [nodes |-> nodes, edges |-> edges, state |-> state,
       documents |-> documents]

\* The outcome of a handler: ok = it committed (db is the new image);
\* ~ok = it raised before the commit and the store is as before.
Commit(db, ret) == [ok |-> TRUE, db |-> db, ret |-> ret]

Raise(err) == [ok |-> FALSE, db |-> Db, ret |-> [raised |-> err]]

\* SELECT * FROM nodes WHERE id=?
SelectNode(db, id) == {r \in db.nodes : r.id = id}

\* fetchone() of a non-empty result.
FetchOne(rows) == CHOOSE r \in rows : TRUE

\* The state after init_db on a fresh file: empty tables and the four
\* seeded state keys.
InitState ==
    {[key |-> "focus", value |-> <<"f">>, updated_at |-> 0],
     [key |-> "open_questions", value |-> <<"[", "]">>, updated_at |-> 0],
     [key |-> "last_session", value |-> <<>>, updated_at |-> 0],
     [key |-> "session_count", value |-> <<"0">>, updated_at |-> 0]}

(* ----------------------------- kg_put_node ------------------------------ *)

\* The parameter defaults of kg_put_node: what an omitted argument is
\* bound to.
PutNodeDefaults ==
    [type |-> "concept", summary |-> "", bands |-> BareText, domain |-> <<>>,
     status |-> "seed", kai_note |-> "", meta |-> BareText]

PutNodeParams == DOMAIN PutNodeDefaults

\* A call kg_put_node(id, **given): the arguments as bound in the body.
PutNodeCall(id, given) ==
    [p \in PutNodeParams \cup {"id", "given"} |->
        IF p = "id" THEN id
        ELSE IF p = "given" THEN DOMAIN given
        ELSE IF p \in DOMAIN given THEN given[p] ELSE PutNodeDefaults[p]]

\* The columns the existing-row branch puts into u besides updated_at:
\* a column is written only when its argument is truthy (and, for the
\* two JSON parameters, is not the default text).
PutNodeFields(ex, c) ==
    LET bl == IF Truthy(c.bands) THEN JsonLoadsList(c.bands) ELSE <<>>
        md == IF Truthy(c.meta) THEN JsonLoadsDict(c.meta) ELSE <<>>
        Col(cond, name, v) == IF cond THEN name :> v ELSE <<>>
    IN    Col(c.type # "", "type", c.type)
       @@ Col(c.summary # "", "summary", c.summary)
       @@ Col(Truthy(c.bands) /\ c.bands # BareText, "bands", JsonDumps(bl))
       @@ Col(c.domain # <<>>, "domain", c.domain)
       @@ Col(c.status # "", "status", c.status)
       @@ Col(c.kai_note # "", "kai_note", c.kai_note)
       @@ Col(Truthy(c.meta) /\ c.meta # BareText, "meta",
              JsonDumps(DictUpdate(JsonLoadsDict(ex.meta), md)))

\* (mutant) u starts empty: the update leaves updated_at alone.
PutNodeU_Stale(ex, c, now) == PutNodeFields(ex, c)

\* The dict u of the existing-row branch.
PutNodeU(ex, c, now) == ("updated_at" :> now) @@ PutNodeFields(ex, c)

\* UPDATE t SET <u> WHERE <the row>: the row with u's columns replaced.
SqlUpdate(row, u) ==
    [col \in DOMAIN row |-> IF col \in DOMAIN u THEN u[col] ELSE row[col]]

\* The new-row branch: INSERT INTO nodes (...) VALUES (...)
PutNodeInsert(c, now) ==
    LET bl == IF Truthy(c.bands) THEN JsonLoadsList(c.bands) ELSE <<>>
        md == IF Truthy(c.meta) THEN JsonLoadsDict(c.meta) ELSE <<>>
    IN [id |-> c.id, type |-> c.type, summary |-> c.summary,
        bands |-> JsonDumps(bl), domain |-> c.domain, status |-> c.status,
        kai_note |-> c.kai_note, meta |-> JsonDumps(md),
        created_at |-> now, updated_at |-> now]

PutNodeRun(db, c, now) ==
    LET rows == SelectNode(db, c.id)
    IN IF rows # {}
       THEN LET ex == FetchOne(rows)
                new == SqlUpdate(ex, PutNodeU(ex, c, now))
            IN Commit([db EXCEPT !.nodes = (@ \ rows) \cup {new}],
                      [op |-> "updated", id |-> c.id, domain |-> new.domain])
       ELSE Commit([db EXCEPT !.nodes = @ \cup {PutNodeInsert(c, now)}],
                   [op |-> "created", id |-> c.id, domain |-> c.domain])

\* A handler's step: the store becomes the outcome's image, and last
\* records the call, whether it committed, what it returned and (gone) how
\* many rows of nodes and of edges its transaction removed or rewrote.
Apply(op, call, out) ==
    /\ nodes' = out.db.nodes
    /\ edges' = out.db.edges
    /\ state' = out.db.state
    /\ documents' = out.db.documents
    /\ last' = [op |-> op, call |-> call, ok |-> out.ok, ret |-> out.ret,
                gone |-> [nodes |-> Cardinality(nodes \ out.db.nodes),
                          edges |-> Cardinality(edges \ out.db.edges)]]
    /\ UNCHANGED <<clock, calls, done>>

kg_put_node(c) == Apply("kg_put_node", c, PutNodeRun(Db, c, clock))

(* ----------------------------- kg_put_edge ------------------------------ *)

\* (mutant) the connection never turns foreign keys on.
ForeignKeysHold_Off(db, row) == TRUE

\* FOREIGN KEY (source_id), (target_id) REFERENCES nodes(id), enforced
\* because get_db sets PRAGMA foreign_keys=ON: checked as the statement runs.
ForeignKeysHold(db, row) ==
    /\ SelectNode(db, row.source_id) # {}
    /\ SelectNode(db, row.target_id) # {}

\* The rows of edges with a row's PRIMARY KEY (source_id, target_id, relation).
SameEdgeKey(db, row) ==
    {e \in db.edges : /\ e.source_id = row.source_id
                      /\ e.target_id = row.target_id
                      /\ e.relation = row.relation}

\* (mutant) INSERT OR IGNORE: a row with the same primary key stays as it is.
InsertOrReplaceEdge_Ignore(db, row) ==
    IF ForeignKeysHold(db, row)
    THEN [ok |-> TRUE,
          db |-> IF SameEdgeKey(db, row) # {} THEN db
                 ELSE [db EXCEPT !.edges = @ \cup {row}]]
    ELSE [ok |-> FALSE, db |-> db]

\* INSERT OR REPLACE INTO edges: a row with the same primary key is deleted
\* first; a foreign-key violation is not a conflict REPLACE resolves, it
\* raises IntegrityError.
InsertOrReplaceEdge(db, row) ==
    IF ForeignKeysHold(db, row)
    THEN [ok |-> TRUE,
          db |-> [db EXCEPT !.edges = (@ \ SameEdgeKey(db, row)) \cup {row}]]
    ELSE [ok |-> FALSE, db |-> db]

\* The parameter defaults of kg_put_edge.
PutEdgeCall(source_id, target_id, relation, given) ==
    [source_id |-> source_id, target_id |-> target_id, relation |-> relation,
     given |-> DOMAIN given,
     weight |-> IF "weight" \in DOMAIN given THEN given.weight ELSE 1,
     note |-> IF "note" \in DOMAIN given THEN given.note ELSE ""]

PutEdgeRun(db, c, now) ==
    LET row == [source_id |-> c.source_id, target_id |-> c.target_id,
                relation |-> c.relation, weight |-> c.weight, note |-> c.note,
                created_at |-> now]
        ins == InsertOrReplaceEdge(db, row)
    IN IF ins.ok
       THEN Commit(ins.db, [op |-> "edge_set", src |-> c.source_id,
                            rel |-> c.relation, tgt |-> c.target_id])
       ELSE Raise("IntegrityError")

kg_put_edge(c) == Apply("kg_put_edge", c, PutEdgeRun(Db, c, clock))

(* ------------------------ kg_delete_node / _edge ------------------------ *)

\* (mutant) the cascade follows source_id only.
CascadeEdges_SourceOnly(db, id) == {e \in db.edges : e.source_id = id}

\* ON DELETE CASCADE of both foreign keys: the edges a deleted node takes
\* with it.
CascadeEdges(db, id) ==
    {e \in db.edges : e.source_id = id \/ e.target_id = id}

\* DELETE FROM nodes WHERE id=?
DeleteNodeRun(db, id) ==
    Commit([db EXCEPT !.nodes = @ \ SelectNode(db, id),
                      !.edges = @ \ CascadeEdges(db, id)],
           [op |-> "deleted", id |-> id])

kg_delete_node(id) ==
    Apply("kg_delete_node", [id |-> id], DeleteNodeRun(Db, id))

\* DELETE FROM edges WHERE source_id=? AND target_id=? AND relation=?
DeleteEdgeRun(db, c) ==
    Commit([db EXCEPT !.edges = @ \ SameEdgeKey(db, c)],
           [op |-> "edge_deleted"])

kg_delete_edge(c) == Apply("kg_delete_edge", c, DeleteEdgeRun(Db, c))

(* ------------------------------- kg_state ------------------------------- *)

\* INSERT OR REPLACE INTO state (key,value,updated_at)
StateRun(db, c, now) ==
    Commit([db EXCEPT !.state = {r \in @ : r.key # c.key} \cup
                {[key |-> c.key, value |-> c.value, updated_at |-> now]}],
           [op |-> "state_set", key |-> c.key])

kg_state(c) == Apply("kg_state", c, StateRun(Db, c, clock))

(* ------------------------------- kg_bulk -------------------------------- *)

\* n.get(k, default) on a parsed JSON object.
Get(n, k, default) == IF k \in DOMAIN n THEN n[k] ELSE default

\* The column values both statements of the node loop bind, in order:
\* every column from the spec or, the key missing, from its default.
BulkNodeValues(n) ==
    [type |-> Get(n, "type", "concept"), summary |-> Get(n, "summary", ""),
     bands |-> JsonDumps(Get(n, "bands", <<>>)),
     domain |-> Get(n, "domain", <<>>), status |-> Get(n, "status", "seed"),
     kai_note |-> Get(n, "kai_note", ""),
     meta |-> JsonDumps(Get(n, "meta", <<>>))]

\* (mutant) the node is written with INSERT OR REPLACE: the row is made anew.
BulkNodeRow_Replace(ex, n, now) ==
    BulkNodeValues(n) @@ [id |-> n.id, created_at |-> now, updated_at |-> now]

\* (mutant) the UPDATE sets only the columns the spec names, as kg_put_node
\* does.
BulkNodeRow_Merge(ex, n, now) ==
    IF ex # {}
    THEN SqlUpdate(FetchOne(ex),
                   [k \in DOMAIN n \cap DOMAIN BulkNodeValues(n) |->
                       BulkNodeValues(n)[k]] @@ [updated_at |-> now])
    ELSE BulkNodeValues(n) @@ [id |-> n.id, created_at |-> now,
                               updated_at |-> now]

\* One node spec applied: UPDATE of the row ex found for n["id"], or
\* (ex = {}) INSERT of a new one.
BulkNodeRow(ex, n, now) ==
    IF ex # {}
    THEN SqlUpdate(FetchOne(ex), BulkNodeValues(n) @@ [updated_at |-> now])
    ELSE BulkNodeValues(n) @@ [id |-> n.id, created_at |-> now,
                               updated_at |-> now]

RECURSIVE BulkNodes(_, _, _)
\* The node loop over ops.get("nodes",[]): r is [ok, db, n]; a spec
\* without "id" raises KeyError and ends the loop.
BulkNodes(r, ns, now) ==
    IF ns = <<>> \/ ~r.ok THEN r
    ELSE LET n == Head(ns)
         IN IF "id" \notin DOMAIN n
            THEN [r EXCEPT !.ok = FALSE, !.err = "KeyError"]
            ELSE LET ex == SelectNode(r.db, n.id)
                     row == BulkNodeRow(ex, n, now)
                 IN BulkNodes([r EXCEPT !.db.nodes = (@ \ ex) \cup {row},
                                        !.n = @ + 1],
                              Tail(ns), now)

RECURSIVE BulkEdges(_, _, _)
\* The edge loop over ops.get("edges",[]).
BulkEdges(r, es, now) ==
    IF es = <<>> \/ ~r.ok THEN r
    ELSE LET e == Head(es)
         IN IF {"source_id", "target_id", "relation"} \subseteq DOMAIN e
            THEN LET row == [source_id |-> e.source_id,
                             target_id |-> e.target_id,
                             relation |-> e.relation,
                             weight |-> Get(e, "weight", 1),
                             note |-> Get(e, "note", ""),
                             created_at |-> now]
                     ins == InsertOrReplaceEdge(r.db, row)
                 IN IF ins.ok
                    THEN BulkEdges([r EXCEPT !.db = ins.db, !.n = @ + 1],
                                   Tail(es), now)
                    ELSE [r EXCEPT !.ok = FALSE, !.err = "IntegrityError"]
            ELSE [r EXCEPT !.ok = FALSE, !.err = "KeyError"]

\* (mutant) every statement commits on its own: what ran before the
\* failing one stays.
BulkRun_Partial(db, ops, now) ==
    LET rn == BulkNodes([ok |-> TRUE, db |-> db, n |-> 0, err |-> ""],
                        Get(ops, "nodes", <<>>), now)
        re == BulkEdges([rn EXCEPT !.n = 0], Get(ops, "edges", <<>>), now)
    IN IF re.ok
       THEN Commit(re.db, [op |-> "bulk", nodes |-> rn.n, edges |-> re.n])
       ELSE [ok |-> FALSE, db |-> re.db, ret |-> [raised |-> re.err]]

\* kg_bulk: both loops in one transaction; db.commit() is reached only
\* when neither raised.
BulkRun(db, ops, now) ==
    LET rn == BulkNodes([ok |-> TRUE, db |-> db, n |-> 0, err |-> ""],
                        Get(ops, "nodes", <<>>), now)
        re == BulkEdges([rn EXCEPT !.n = 0], Get(ops, "edges", <<>>), now)
    IN IF re.ok
       THEN Commit(re.db, [op |-> "bulk", nodes |-> rn.n, edges |-> re.n])
       ELSE Raise(re.err)

kg_bulk(ops) == Apply("kg_bulk", ops, BulkRun(Db, ops, clock))

(* -------------------------- kg_bulk_set_domain -------------------------- *)

\* (mutant) the statement is an upsert: a listed id without a row gets one.
SetDomainRows_Upsert(db, domain, nid, now) ==
    IF SelectNode(db, nid) = {}
    THEN {[id |-> nid, type |-> "concept", summary |-> "", bands |-> BareText,
           domain |-> domain, status |-> "seed", kai_note |-> "",
           meta |-> BareText, created_at |-> now, updated_at |-> now]}
    ELSE {SqlUpdate(r, [domain |-> domain, updated_at |-> now]) :
            r \in SelectNode(db, nid)}

\* UPDATE nodes SET domain=?, updated_at=? WHERE id=?: the rows it leaves
\* in place of those it matched (none when no row has the id).
SetDomainRows(db, domain, nid, now) ==
    {SqlUpdate(r, [domain |-> domain, updated_at |-> now]) :
        r \in SelectNode(db, nid)}

RECURSIVE SetDomainLoop(_, _, _, _)
SetDomainLoop(db, domain, ids, now) ==
    IF ids = <<>> THEN db
    ELSE SetDomainLoop(
            [db EXCEPT !.nodes = (@ \ SelectNode(db, Head(ids)))
                                  \cup SetDomainRows(db, domain, Head(ids), now)],
            domain, Tail(ids), now)

BulkSetDomainRun(db, c, now) ==
    Commit(SetDomainLoop(db, c.domain, c.node_ids, now),
           [op |-> "bulk_domain_set", domain |-> c.domain,
            count |-> Len(c.node_ids)])

kg_bulk_set_domain(c) ==
    Apply("kg_bulk_set_domain", c, BulkSetDomainRun(Db, c, clock))

(* ------------------------------ documents ------------------------------- *)

\* kg_doc_create: doc_id is the first 8 characters of a fresh uuid4, any
\* id at all; INSERT INTO documents raises IntegrityError on a taken id.
DocCreateRun(db, c, now) ==
    LET nids == IF Truthy(c.node_ids) THEN JsonLoadsList(c.node_ids) ELSE <<>>
        row == [id |-> c.doc_id, title |-> c.title, content |-> c.content,
                session_number |-> c.session_number,
                node_ids |-> JsonDumps(nids),
                created_at |-> now, updated_at |-> now]
    IN IF \E d \in db.documents : d.id = c.doc_id
       THEN Raise("IntegrityError")
       ELSE Commit([db EXCEPT !.documents = @ \cup {row}],
                   [op |-> "doc_created", id |-> c.doc_id, title |-> c.title,
                    session |-> c.session_number])

kg_doc_create(c) == Apply("kg_doc_create", c, DocCreateRun(Db, c, clock))

\* kg_doc_delete: a missing id is answered with an error value.
DocDeleteRun(db, id) ==
    LET rows == {d \in db.documents : d.id = id}
    IN IF rows = {}
       THEN Commit(db, [error |-> <<"doc_not_found", id>>])
       ELSE Commit([db EXCEPT !.documents = @ \ rows],
                   [op |-> "doc_deleted", id |-> id,
                    title |-> FetchOne(rows).title])

kg_doc_delete(id) == Apply("kg_doc_delete", [id |-> id], DocDeleteRun(Db, id))

\* SELECT * FROM documents WHERE id=?
SelectDoc(db, id) == {d \in db.documents : d.id = id}

\* (mutant) the new ids are appended to the stored list as they come.
MergeIds_Concat(old, new) == old \o new

\* list(old_nids | set(new_nids)): the ids of both lists, each once, in the
\* order the set iterates.
MergeIds(old, new) == SetToSeq(Range(old) \cup Range(new))

\* The columns kg_doc_append sets, computed from the row it read.
DocAppendU(row, c, now) ==
    LET new_nids == IF Truthy(c.node_ids) THEN JsonLoadsList(c.node_ids)
                    ELSE <<>>
    IN [content |-> row.content \o <<"\n">> \o c.content,
        node_ids |-> JsonDumps(MergeIds(JsonLoadsList(row.node_ids), new_nids)),
        updated_at |-> now]

\* The value kg_doc_append returns after its UPDATE.
DocAppendRet(c, u) ==
    [op |-> "doc_appended", id |-> c.id, len |-> Len(u.content),
     nodes |-> Len(JsonLoadsList(u.node_ids))]

\* (mutant) a missing id gets a document made of the appended content.
DocAppendRun_Upsert(db, c, now) ==
    LET rows == SelectDoc(db, c.id)
    IN IF rows = {}
       THEN Commit([db EXCEPT !.documents = @ \cup
                       {[id |-> c.id, title |-> "", content |-> c.content,
                         session_number |-> 0, node_ids |-> c.node_ids,
                         created_at |-> now, updated_at |-> now]}],
                   [op |-> "doc_appended", id |-> c.id,
                    len |-> Len(c.content),
                    nodes |-> Len(JsonLoadsList(c.node_ids))])
       ELSE LET u == DocAppendU(FetchOne(rows), c, now)
            IN Commit([db EXCEPT !.documents =
                          (@ \ rows) \cup {SqlUpdate(r, u) : r \in rows}],
                      DocAppendRet(c, u))

\* kg_doc_append: a missing id is answered with an error value.
DocAppendRun(db, c, now) ==
    LET rows == SelectDoc(db, c.id)
    IN IF rows = {}
       THEN Commit(db, [error |-> <<"doc_not_found", c.id>>])
       ELSE LET u == DocAppendU(FetchOne(rows), c, now)
            IN Commit([db EXCEPT !.documents =
                          (@ \ rows) \cup {SqlUpdate(r, u) : r \in rows}],
                      DocAppendRet(c, u))

\* The parameter default of kg_doc_append: node_ids = "[]".
DocAppendCall(id, content, given) ==
    [id |-> id, content |-> content, given |-> DOMAIN given,
     node_ids |-> IF "node_ids" \in DOMAIN given THEN given.node_ids
                  ELSE BareText]

\* The content the call would store is within MaxContent.
AppendFits(db, c) ==
    \A d \in SelectDoc(db, c.id) :
       Len(d.content) + 1 + Len(c.content) <= MaxContent

kg_doc_append(c) ==
    /\ AppendFits(Db, c)
    /\ Apply("kg_doc_append", c, DocAppendRun(Db, c, clock))

\* _doc(r)
DocView(r) ==
    [id |-> r.id, title |-> r.title, content |-> r.content,
     session |-> r.session_number, node_ids |-> JsonLoadsList(r.node_ids),
     created |-> r.created_at, updated |-> r.updated_at]

\* kg_doc_read: a missing id is answered with an error value.
DocReadRun(db, id) ==
    LET rows == SelectDoc(db, id)
    IN IF rows = {}
       THEN Commit(db, [error |-> <<"doc_not_found", id>>])
       ELSE Commit(db, DocView(FetchOne(rows)))

kg_doc_read(id) == Apply("kg_doc_read", [id |-> id], DocReadRun(Db, id))

(* -------------------------------- views -------------------------------- *)

\* _node(r), _edge(r), _idx(r): the compact records the tools return.
NodeView(r) ==
    [id |-> r.id, t |-> r.type, s |-> r.summary, b |-> JsonLoadsList(r.bands),
     d |-> r.domain, st |-> r.status, k |-> r.kai_note,
     m |-> JsonLoadsDict(r.meta)]

EdgeView(r) ==
    [src |-> r.source_id, rel |-> r.relation, tgt |-> r.target_id,
     w |-> r.weight, n |-> r.note]

IdxView(r) == [id |-> r.id, t |-> r.type, st |-> r.status, d |-> r.domain]

\* The rows of SELECT * FROM edges WHERE source_id=? [AND relation=?] and
\* of ... WHERE target_id=? [AND relation=?]; rf = "" is no filter.
EdgesFrom(db, nid, rf) ==
    {e \in db.edges : e.source_id = nid /\ (rf = "" \/ e.relation = rf)}

\* (mutant) the filter is left off the incoming-edge query.
EdgesTo_Unfiltered(db, nid, rf) == {e \in db.edges : e.target_id = nid}

EdgesTo(db, nid, rf) ==
    {e \in db.edges : e.target_id = nid /\ (rf = "" \/ e.relation = rf)}

RECURSIVE MapEdgeView(_)
MapEdgeView(rows) ==
    IF rows = <<>> THEN <<>>
    ELSE <<EdgeView(Head(rows))>> \o MapEdgeView(Tail(rows))

EdgeKey(e) == <<e.src, e.rel, e.tgt>>

\* (mutant) the list is returned as collected.
Dedup_None(es, seen) == es

RECURSIVE Dedup(_, _)
\* The closing loop of both traversals: an edge is kept the first time
\* its (src, rel, tgt) is seen.
Dedup(es, seen) ==
    IF es = <<>> THEN <<>>
    ELSE LET k == EdgeKey(Head(es))
         IN IF k \in seen THEN Dedup(Tail(es), seen)
            ELSE <<Head(es)>> \o Dedup(Tail(es), seen \cup {k})

(* -------------------------------- kg_get -------------------------------- *)

RECURSIVE GetFrontier_OutOnly(_, _, _)
\* (mutant) the source of an incoming edge is put on the next frontier
\* but not among the neighbours.
GetFrontier_OutOnly(db, st, fr) ==
    IF fr = <<>> THEN st
    ELSE LET nid == Head(fr)
             out == EdgesFrom(db, nid, "")
             inc == EdgesTo(db, nid, "")
             tgts == {e.target_id :
                        e \in {x \in out : x.target_id \notin st.visited}}
             srcs == {e.source_id :
                        e \in {x \in inc : x.source_id \notin st.visited}}
         IN GetFrontier_OutOnly(db,
                [st EXCEPT !.edges = @ \o MapEdgeView(SetToSeq(out))
                                       \o MapEdgeView(SetToSeq(inc)),
                           !.nf = @ \cup tgts \cup srcs,
                           !.nids = @ \cup tgts],
                Tail(fr))

RECURSIVE GetFrontier(_, _, _)
\* One round's inner loop over the frontier (fr, as iterated): st is
\* [edges, nids, visited, nf]; visited is not touched inside a round.
GetFrontier(db, st, fr) ==
    IF fr = <<>> THEN st
    ELSE LET nid == Head(fr)
             out == EdgesFrom(db, nid, "")
             inc == EdgesTo(db, nid, "")
             new == {e.target_id : e \in {x \in out : x.target_id \notin st.visited}}
                    \cup
                    {e.source_id : e \in {x \in inc : x.source_id \notin st.visited}}
         IN GetFrontier(db,
                [st EXCEPT !.edges = @ \o MapEdgeView(SetToSeq(out))
                                       \o MapEdgeView(SetToSeq(inc)),
                           !.nf = @ \cup new,
                           !.nids = @ \cup new],
                Tail(fr))

\* (mutant) the cap on hops is off by one.
GetRounds_Short(hops) == Min(hops, 2)

\* (mutant) the neighbourhood is always expanded at least once.
GetRounds_AtLeastOne(hops) == IF hops <= 0 THEN 1 ELSE Min(hops, 3)

\* range(min(hops,3)): the number of rounds (none for hops <= 0).
GetRounds(hops) == Min(hops, 3)

RECURSIVE GetLoop(_, _, _)
\* The outer loop, k rounds to go; st also carries the frontier.
GetLoop(db, st, k) ==
    IF k <= 0 THEN st
    ELSE LET r == GetFrontier(db, [st EXCEPT !.nf = {}], SetToSeq(st.frontier))
         IN GetLoop(db, [r EXCEPT !.visited = @ \cup r.nf, !.frontier = r.nf],
                    k - 1)

GetRun(db, c) ==
    LET rows == SelectNode(db, c.id)
    IN IF rows = {}
       THEN Commit(db, [error |-> <<"not_found", c.id>>])
       ELSE LET st == GetLoop(db, [edges |-> <<>>, nids |-> {},
                                   visited |-> {c.id}, frontier |-> {c.id},
                                   nf |-> {}],
                              GetRounds(c.hops))
                found == {nid \in st.nids : SelectNode(db, nid) # {}}
            IN Commit(db,
                 [node |-> NodeView(FetchOne(rows)),
                  edges |-> Dedup(st.edges, {}),
                  neighbors |-> [nid \in found |->
                                   NodeView(FetchOne(SelectNode(db, nid)))]])

kg_get(c) == Apply("kg_get", c, GetRun(Db, c))

(* ------------------------------ kg_traverse ----------------------------- *)

RECURSIVE TraverseFrontier(_, _, _, _, _)
\* One round's inner loop: st is [vn, ce, visited, nf, visits]; visits
\* lists the ids in the order visited.add took them.
TraverseFrontier(db, st, fr, expand, rf) ==
    IF fr = <<>> THEN st
    ELSE LET nid == Head(fr)
         IN IF nid \in st.visited
            THEN TraverseFrontier(db, st, Tail(fr), expand, rf)
            ELSE LET visited == st.visited \cup {nid}
                     rows == SelectNode(db, nid)
                     out == IF expand THEN EdgesFrom(db, nid, rf) ELSE {}
                     inc == IF expand THEN EdgesTo(db, nid, rf) ELSE {}
                     new == {e.target_id :
                               e \in {x \in out : x.target_id \notin visited}}
                            \cup
                            {e.source_id :
                               e \in {x \in inc : x.source_id \notin visited}}
                 IN TraverseFrontier(db,
                      [st EXCEPT
                         !.visited = visited,
                         !.visits = Append(@, nid),
                         !.vn = IF rows # {}
                                THEN (nid :> NodeView(FetchOne(rows))) @@ @
                                ELSE @,
                         !.ce = @ \o MapEdgeView(SetToSeq(out))
                                  \o MapEdgeView(SetToSeq(inc)),
                         !.nf = @ \cup new],
                      Tail(fr), expand, rf)

RECURSIVE TraverseLoop_Short(_, _, _, _, _, _)
\* (mutant) for hop in range(max_hops): the last round is not run.
TraverseLoop_Short(db, st, frontier, hop, max_hops, rf) ==
    IF hop >= max_hops THEN st
    ELSE LET r == TraverseFrontier(db, [st EXCEPT !.nf = {}],
                                   SetToSeq(frontier), hop < max_hops, rf)
         IN TraverseLoop_Short(db, r, r.nf, hop + 1, max_hops, rf)

RECURSIVE TraverseLoop(_, _, _, _, _, _)
\* for hop in range(max_hops+1)
TraverseLoop(db, st, frontier, hop, max_hops, rf) ==
    IF hop > max_hops THEN st
    ELSE LET r == TraverseFrontier(db, [st EXCEPT !.nf = {}],
                                   SetToSeq(frontier), hop < max_hops, rf)
         IN TraverseLoop(db, r, r.nf, hop + 1, max_hops, rf)

\* (mutant) a start_id without a row is answered as kg_get answers it.
TraverseRun_NotFound(db, c) ==
    IF SelectNode(db, c.start_id) = {}
    THEN Commit(db, [error |-> <<"not_found", c.start_id>>])
    ELSE LET st == TraverseLoop(db, [vn |-> <<>>, ce |-> <<>>,
                                     visited |-> {}, nf |-> {},
                                     visits |-> <<>>],
                                {c.start_id}, 0, c.max_hops,
                                c.relation_filter)
             ue == Dedup(st.ce, {})
         IN Commit(db,
              [start |-> c.start_id, hops |-> c.max_hops,
               node_count |-> Cardinality(DOMAIN st.vn),
               edge_count |-> Len(ue),
               nodes |-> st.vn, edges |-> ue, visits |-> st.visits])

\* The handler's result; visits (the order of the visited.add calls) is
\* carried beside the returned fields and is no part of the JSON.
TraverseRun(db, c) ==
    LET st == TraverseLoop(db, [vn |-> <<>>, ce |-> <<>>, visited |-> {},
                                nf |-> {}, visits |-> <<>>],
                           {c.start_id}, 0, c.max_hops, c.relation_filter)
        ue == Dedup(st.ce, {})
    IN Commit(db,
         [start |-> c.start_id, hops |-> c.max_hops,
          node_count |-> Cardinality(DOMAIN st.vn), edge_count |-> Len(ue),
          nodes |-> st.vn, edges |-> ue, visits |-> st.visits])

kg_traverse(c) == Apply("kg_traverse", c, TraverseRun(Db, c))

(* ---------------------------- kg_load_domain ---------------------------- *)

\* SQLite's LIKE folds the case of ASCII letters.
Lower(ch) == IF ch = "A" THEN "a" ELSE IF ch = "B" THEN "b" ELSE ch

RECURSIVE Like(_, _)
\* s LIKE p: % matches any run of characters, _ any one character, any
\* other character itself up to ASCII case.
Like(p, s) ==
    IF p = <<>> THEN s = <<>>
    ELSE IF Head(p) = "%"
         THEN \E i \in 0..Len(s) : Like(Tail(p), SubSeq(s, i + 1, Len(s)))
    ELSE IF s = <<>> THEN FALSE
    ELSE IF Head(p) = "_" THEN Like(Tail(p), Tail(s))
    ELSE Lower(Head(p)) = Lower(Head(s)) /\ Like(Tail(p), Tail(s))

\* The code points of the characters the model's strings are made of
\* (the BINARY collation of ORDER BY domain compares them).
CharRank(ch) ==
    CASE ch = "%" -> 37 [] ch = "." -> 46 [] ch = "A" -> 65 [] ch = "B" -> 66
      [] ch = "_" -> 95 [] ch = "a" -> 97 [] ch = "b" -> 98 [] ch = "x" -> 120
      [] ch = "y" -> 121 [] OTHER -> 0

RECURSIVE StrLE(_, _)
StrLE(a, b) ==
    IF a = <<>> THEN TRUE
    ELSE IF b = <<>> THEN FALSE
    ELSE IF Head(a) = Head(b) THEN StrLE(Tail(a), Tail(b))
    ELSE CharRank(Head(a)) < CharRank(Head(b))

\* ORDER BY domain, updated_at DESC
DomainOrder(r, q) ==
    IF r.domain = q.domain THEN r.updated_at >= q.updated_at
    ELSE StrLE(r.domain, q.domain)

RECURSIVE SortByDomain(_)
\* The node rows S in an order ORDER BY allows (rows it ranks equal come
\* in some order).
SortByDomain(S) ==
    IF S = {} THEN <<>>
    ELSE LET m == CHOOSE r \in S : \A q \in S : DomainOrder(r, q)
         IN <<m>> \o SortByDomain(S \ {m})

RECURSIVE SortByName(_)
\* GROUP BY domain ORDER BY domain: one group per domain, by name.
SortByName(S) ==
    IF S = {} THEN <<>>
    ELSE LET m == CHOOSE r \in S : \A q \in S : StrLE(r.name, q.name)
         IN <<m>> \o SortByName(S \ {m})

RECURSIVE MapNodeView(_)
MapNodeView(rows) ==
    IF rows = <<>> THEN <<>>
    ELSE <<NodeView(Head(rows))>> \o MapNodeView(Tail(rows))

RECURSIVE MapIdxView(_)
MapIdxView(rows) ==
    IF rows = <<>> THEN <<>>
    ELSE <<IdxView(Head(rows))>> \o MapIdxView(Tail(rows))

\* (mutant) the pattern is the name alone: only the exact domain matches.
DomainPattern_Exact(name) == name

\* pattern = name + "%"
DomainPattern(name) == name \o <<"%">>

\* WHERE domain LIKE ?
DomainRows(db, name) ==
    {r \in db.nodes : Like(DomainPattern(name), r.domain)}

\* (mutant) the two IN tests are joined by OR: an edge with one endpoint
\* among the loaded nodes is returned too.
EdgesWithin_Touching(db, node_ids) ==
    {e \in db.edges : \/ e.source_id \in node_ids
                      \/ e.target_id \in node_ids}

\* SELECT * FROM edges WHERE source_id IN (...) AND target_id IN (...)
EdgesWithin(db, node_ids) ==
    {e \in db.edges : /\ e.source_id \in node_ids
                      /\ e.target_id \in node_ids}

LoadDomainRun(db, c) ==
    LET rows == DomainRows(db, c.name)
        sorted == SortByDomain(rows)
        nds == IF c.depth = "index" THEN MapIdxView(sorted)
               ELSE MapNodeView(sorted)
        node_ids == {r.id : r \in rows}
        eds == IF node_ids # {} /\ c.depth = "full"
               THEN MapEdgeView(SetToSeq(EdgesWithin(db, node_ids)))
               ELSE <<>>
        \* WHERE domain LIKE ? AND domain != ? GROUP BY domain ORDER BY domain
        subdoms == {r.domain : r \in {x \in rows : x.domain # c.name}}
        subs == SortByName({[name |-> d,
                             count |-> Cardinality({r \in rows : r.domain = d})] :
                              d \in subdoms})
    IN Commit(db, [domain |-> c.name, node_count |-> Len(nds),
                   edge_count |-> Len(eds), nodes |-> nds, edges |-> eds,
                   sub_domains |-> subs])

kg_load_domain(c) == Apply("kg_load_domain", c, LoadDomainRun(Db, c))

(* -------------------------------- kg_boot ------------------------------- *)

Digits == <<"0", "1", "2", "3", "4", "5", "6", "7", "8", "9">>

IsDigit(ch) == \E i \in DOMAIN Digits : Digits[i] = ch

DigitVal(ch) == (CHOOSE i \in DOMAIN Digits : Digits[i] = ch) - 1

RECURSIVE Strip(_)
\* str.strip() as int() applies it: blanks at either end are dropped.
Strip(s) ==
    IF s # <<>> /\ Head(s) = " " THEN Strip(Tail(s))
    ELSE IF s # <<>> /\ s[Len(s)] = " " THEN Strip(SubSeq(s, 1, Len(s) - 1))
    ELSE s

RECURSIVE DigitsValue(_)
DigitsValue(s) ==
    IF s = <<>> THEN 0
    ELSE 10 * DigitsValue(SubSeq(s, 1, Len(s) - 1)) + DigitVal(s[Len(s)])

\* int(s) of a str: blanks around, an optional sign, one or more decimal
\* digits; anything else raises ValueError (ok = FALSE).
IntOf(s) ==
    LET t == Strip(s)
        signed == t # <<>> /\ Head(t) \in {"+", "-"}
        ds == IF signed THEN Tail(t) ELSE t
    IN IF ds # <<>> /\ \A i \in DOMAIN ds : IsDigit(ds[i])
       THEN [ok |-> TRUE,
             v |-> IF signed /\ Head(t) = "-" THEN 0 - DigitsValue(ds)
                   ELSE DigitsValue(ds)]
       ELSE [ok |-> FALSE, v |-> 0]

RECURSIVE StrOfNat(_)
StrOfNat(n) ==
    IF n < 10 THEN <<Digits[n + 1]>>
    ELSE Append(StrOfNat(n \div 10), Digits[(n % 10) + 1])

\* str(n) of an int.
StrOf(n) == IF n < 0 THEN <<"-">> \o StrOfNat(0 - n) ELSE StrOfNat(n)

\* _doc_idx(r)
DocIdxView(r) ==
    [id |-> r.id, title |-> r.title, session |-> r.session_number,
     len |-> Len(r.content), updated |-> r.updated_at]

\* The documents LIMIT leaves of kg_boot's listing.
BootDocsLimit == 20

RECURSIVE SortByLastUpd(_)
\* ORDER BY last_upd DESC over the domain groups.
SortByLastUpd(S) ==
    IF S = {} THEN <<>>
    ELSE LET m == CHOOSE r \in S : \A q \in S : r.last_updated >= q.last_updated
         IN <<m>> \o SortByLastUpd(S \ {m})

RECURSIVE SortByUpdated(_)
\* ORDER BY updated_at DESC over node rows.
SortByUpdated(S) ==
    IF S = {} THEN <<>>
    ELSE LET m == CHOOSE r \in S : \A q \in S : r.updated_at >= q.updated_at
         IN <<m>> \o SortByUpdated(S \ {m})

RECURSIVE SortDocs(_)
\* ORDER BY session_number DESC, updated_at DESC over document rows.
SortDocs(S) ==
    IF S = {} THEN <<>>
    ELSE LET m == CHOOSE r \in S : \A q \in S :
                     \/ r.session_number > q.session_number
                     \/ /\ r.session_number = q.session_number
                        /\ r.updated_at >= q.updated_at
         IN <<m>> \o SortDocs(S \ {m})

RECURSIVE MapDocIdxView(_)
MapDocIdxView(rows) ==
    IF rows = <<>> THEN <<>>
    ELSE <<DocIdxView(Head(rows))>> \o MapDocIdxView(Tail(rows))

\* r["domain"] or "(unassigned)"
DomainLabel(d) ==
    IF d = <<>>
    THEN <<"(", "u", "n", "a", "s", "s", "i", "g", "n", "e", "d", ")">>
    ELSE d

RECURSIVE MaxOf(_)
MaxOf(S) ==
    LET x == CHOOSE y \in S : TRUE
    IN IF S = {x} THEN x
       ELSE LET m == MaxOf(S \ {x}) IN IF x >= m THEN x ELSE m

\* SELECT domain, COUNT(*), MAX(updated_at) FROM nodes GROUP BY domain
DomainGroups(db) ==
    {[name |-> DomainLabel(d),
      count |-> Cardinality({r \in db.nodes : r.domain = d}),
      last_updated |-> MaxOf({r.updated_at : r \in {x \in db.nodes : x.domain = d}})] :
        d \in {r.domain : r \in db.nodes}}

\* {r["key"]: r["value"] for r in SELECT key,value FROM state}
StateDict(db) ==
    [k \in {r.key : r \in db.state} |->
        (CHOOSE r \in db.state : r.key = k).value]

\* (mutant) the counter is written back as read.
BootCount_Same(v) == v

\* int(state.get("session_count","0")) + 1
BootCount(v) == v + 1

BootRun(db, c, now) ==
    LET st == StateDict(db)
        sorted == SortDocs(db.documents)
        res == [state |-> st,
                domains |-> SortByLastUpd(DomainGroups(db)),
                meta_nodes |-> MapNodeView(SortByUpdated(
                    {r \in db.nodes : r.domain = <<"m", "e", "t", "a">>})),
                edge_count |-> Cardinality(db.edges),
                docs |-> MapDocIdxView(
                    SubSeq(sorted, 1, Min(Len(sorted), BootDocsLimit)))]
        full == IF c.include_edges
                THEN res @@ [edges |-> MapEdgeView(SetToSeq(db.edges))]
                ELSE res
        old == IntOf(IF "session_count" \in DOMAIN st THEN st["session_count"]
                     ELSE <<"0">>)
    IN IF old.ok
       THEN Commit([db EXCEPT !.state =
                       {r \in @ : r.key # "session_count"} \cup
                       {[key |-> "session_count",
                         value |-> StrOf(BootCount(old.v)),
                         updated_at |-> now]}],
                   full)
       ELSE Raise("ValueError")

\* The stored session_count, read as kg_boot reads it.
StoredCount(st) ==
    IntOf(IF \E r \in st : r.key = "session_count"
          THEN (CHOOSE r \in st : r.key = "session_count").value
          ELSE <<"0">>)

kg_boot(c) ==
    /\ StoredCount(state).ok => StoredCount(state).v < MaxSessions
    /\ Apply("kg_boot", c, BootRun(Db, c, clock))

(* ---------------------------- kg_list_domains --------------------------- *)

RECURSIVE Split(_)
\* d.split("."): the pieces between the dots (one piece, maybe empty,
\* when there is no dot).
Split(s) ==
    IF \E i \in DOMAIN s : s[i] = "."
    THEN LET i == CHOOSE j \in DOMAIN s :
                     s[j] = "." /\ \A k \in 1..(j - 1) : s[k] # "."
         IN <<SubSeq(s, 1, i - 1)>> \o Split(SubSeq(s, i + 1, Len(s)))
    ELSE <<s>>

\* SELECT domain, COUNT(*) as cnt, MAX(updated_at) as last_upd FROM nodes
\* GROUP BY domain
ListGroups(db) ==
    {[domain |-> d,
      cnt |-> Cardinality({r \in db.nodes : r.domain = d}),
      last_upd |-> MaxOf({r.updated_at : r \in {x \in db.nodes : x.domain = d}})] :
        d \in {r.domain : r \in db.nodes}}

RECURSIVE SortGroups(_)
\* ORDER BY domain
SortGroups(S) ==
    IF S = {} THEN <<>>
    ELSE LET m == CHOOSE r \in S : \A q \in S : StrLE(r.domain, q.domain)
         IN <<m>> \o SortGroups(S \ {m})

\* The place of root in tree (a dict as its values in insertion order),
\* 0 when it is not a key.
TreeIndex(tree, root) ==
    IF \E i \in DOMAIN tree : tree[i].name = root
    THEN CHOOSE i \in DOMAIN tree : tree[i].name = root
    ELSE 0

\* (mutant) a sub-domain is listed under its root but not added to the
\* root's count.
TreeStep_NoFold(tree, r) ==
    LET d == DomainLabel(r.domain)
        parts == Split(d)
        root == parts[1]
        t == IF TreeIndex(tree, root) = 0
             THEN Append(tree, [name |-> root, count |-> 0, last_updated |-> 0,
                                sub_domains |-> <<>>])
             ELSE tree
        i == TreeIndex(t, root)
    IN IF Len(parts) = 1
       THEN [t EXCEPT ![i].count = @ + r.cnt,
                      ![i].last_updated = IF @ >= r.last_upd THEN @
                                          ELSE r.last_upd]
       ELSE [t EXCEPT ![i].sub_domains =
                         Append(@, [name |-> d, count |-> r.cnt,
                                    last_updated |-> r.last_upd])]

\* The body of the loop over the groups: the root's entry is made when it
\* is first met, and the group is counted into it, as itself or as one of
\* its sub-domains.
TreeStep(tree, r) ==
    LET d == DomainLabel(r.domain)
        parts == Split(d)
        root == parts[1]
        t == IF TreeIndex(tree, root) = 0
             THEN Append(tree, [name |-> root, count |-> 0, last_updated |-> 0,
                                sub_domains |-> <<>>])
             ELSE tree
        i == TreeIndex(t, root)
    IN IF Len(parts) = 1
       THEN [t EXCEPT ![i].count = @ + r.cnt,
                      ![i].last_updated = IF @ >= r.last_upd THEN @
                                          ELSE r.last_upd]
       ELSE [t EXCEPT ![i].sub_domains =
                         Append(@, [name |-> d, count |-> r.cnt,
                                    last_updated |-> r.last_upd]),
                      ![i].count = @ + r.cnt,
                      ![i].last_updated = IF @ >= r.last_upd THEN @
                                          ELSE r.last_upd]

RECURSIVE TreeLoop(_, _)
TreeLoop(tree, rows) ==
    IF rows = <<>> THEN tree
    ELSE TreeLoop(TreeStep(tree, Head(rows)), Tail(rows))

ListDomainsRun(db) ==
    Commit(db, [domains |-> TreeLoop(<<>>, SortGroups(ListGroups(db)))])

kg_list_domains == Apply("kg_list_domains", <<>>, ListDomainsRun(Db))

\* The server processes that may be started on one database file.
Procs == {"p1", "p2"}

\* A process between two calls.
Idle == [pc |-> "idle"]

\* Time passes between two calls.
Tick ==
    /\ clock < MaxClock
    /\ clock' = clock + 1
    /\ last' = [op |-> "tick"]
    /\ UNCHANGED <<nodes, edges, state, documents, calls, done>>

Init ==
    /\ nodes = {}
    /\ edges = {}
    /\ state = InitState
    /\ documents = {}
    /\ clock = 0
    /\ last = [op |-> "init"]
    /\ calls = [p \in Procs |-> Idle]
    /\ done = [boots |-> 0, keys |-> {}, appends |-> <<>>]

(* ------------------- the store under every mutation --------------------- *)

NodeIds == {"n1", "n2", "n3"}

\* The edges the callers ask for: a pair in both directions, the same pair
\* under a second relation, a self-loop, and a cycle n1 -> n2 -> n3 -> n1.
StoreEdgeKeys ==
    {<<"n1", "n2", "r">>, <<"n2", "n1", "r">>, <<"n1", "n2", "s">>,
     <<"n2", "n3", "r">>, <<"n3", "n3", "r">>, <<"n3", "n1", "r">>}

EdgeSpec(k) == [source_id |-> k[1], target_id |-> k[2], relation |-> k[3]]

\* Batches: nodes and an edge between them; an edge to a node that may be
\* missing; a node spec without "id"; an edge spec without "relation".
StoreBulks ==
    {[nodes |-> <<[id |-> "n1"], [id |-> "n2"]>>,
      edges |-> <<EdgeSpec(<<"n1", "n2", "r">>)>>],
     [nodes |-> <<[id |-> "n3"]>>,
      edges |-> <<EdgeSpec(<<"n3", "n3", "r">>), EdgeSpec(<<"n3", "n1", "r">>)>>],
     [nodes |-> <<[id |-> "n2"], [type |-> "model"]>>],
     [edges |-> <<[source_id |-> "n1", target_id |-> "n2"]>>]}

StoreDocs ==
    {[doc_id |-> "d1", title |-> "t", session_number |-> 1,
      content |-> <<"x">>, node_ids |-> Text(<<"n1">>)]}

Next ==
    \/ \E id \in NodeIds : kg_put_node(PutNodeCall(id, <<>>))
    \/ \E k \in StoreEdgeKeys : kg_put_edge(PutEdgeCall(k[1], k[2], k[3], <<>>))
    \/ \E id \in NodeIds : kg_delete_node(id)
    \/ \E k \in StoreEdgeKeys : kg_delete_edge(EdgeSpec(k))
    \/ \E ops \in StoreBulks : kg_bulk(ops)
    \/ kg_bulk_set_domain([domain |-> <<"a">>, node_ids |-> <<"n3", "n1">>])
    \/ kg_state([key |-> "focus", value |-> <<"g">>])
    \/ \E c \in StoreDocs : kg_doc_create(c)
    \/ kg_doc_delete("d1")

Spec == Init /\ [][Next]_vars

(* --------------------- kg_put_node on scalar fields --------------------- *)

NoArgs == [p \in {} |-> ""]

\* What the callers pass: nothing, one scalar field with a value or with
\* the empty string, or several fields at once.
ScalarGivens ==
    {NoArgs,
     [type |-> "model"], [type |-> ""], [summary |-> "s1"], [summary |-> ""],
     [status |-> "deep"], [status |-> ""], [kai_note |-> "k1"],
     [kai_note |-> ""], [domain |-> <<"a">>], [domain |-> <<>>],
     [type |-> "model", summary |-> "s1", status |-> "deep",
      kai_note |-> "k1", domain |-> <<"a">>],
     [type |-> "", summary |-> "", status |-> "", kai_note |-> "",
      domain |-> <<>>]}

NextScalar ==
    \/ \E id \in {"n1", "n2"}, g \in ScalarGivens :
          kg_put_node(PutNodeCall(id, g))
    \/ kg_delete_node("n2")

SpecScalar == Init /\ [][NextScalar]_vars

(* --------------------------- kg_put_node on meta ------------------------ *)

\* The meta texts the callers pass: one pair, two pairs, a repeated key,
\* "{ }", "{}" and "".
MetaTexts ==
    {Text(<< <<"k", 1>> >>), Text(<< <<"k", 2>> >>), Text(<< <<"j", 1>> >>),
     Text(<< <<"j", 2>>, <<"k", 1>> >>), Text(<< <<"k", 1>>, <<"k", 2>> >>),
     SpacedText, BareText, EmptyText}

NextMeta ==
    \/ \E id \in {"n1", "n2"}, t \in MetaTexts :
          kg_put_node(PutNodeCall(id, [meta |-> t]))
    \/ \E id \in {"n1", "n2"}, g \in {NoArgs, [summary |-> "s1"]} :
          kg_put_node(PutNodeCall(id, g))
    \/ kg_bulk([nodes |-> <<[id |-> "n1", meta |-> << <<"j", 2>> >>]>>])
    \/ kg_delete_node("n2")

SpecMeta == Init /\ [][NextMeta]_vars

(* ------------------------ node rows over time --------------------------- *)

TimeBulks ==
    {[nodes |-> <<[id |-> "n1"]>>],
     [nodes |-> <<[id |-> "n2", summary |-> "s1"], [id |-> "n1"]>>]}

TimeSetDomains ==
    {[domain |-> <<"a">>, node_ids |-> <<"n1", "n2">>],
     [domain |-> <<>>, node_ids |-> <<"n2">>]}

NextTime ==
    \/ Tick
    \/ \E id \in {"n1", "n2"}, g \in {NoArgs, [summary |-> "s1"]} :
          kg_put_node(PutNodeCall(id, g))
    \/ \E ops \in TimeBulks : kg_bulk(ops)
    \/ \E c \in TimeSetDomains : kg_bulk_set_domain(c)
    \/ \E id \in {"n1", "n2"} : kg_delete_node(id)

SpecTime == Init /\ [][NextTime]_vars

(* --------------------------- loading domains ---------------------------- *)

\* The domains the callers file nodes under: "a", "ab", "a.b", "b".
DomainNames == {<<"a">>, <<"a", "b">>, <<"a", ".", "b">>, <<"b">>}

\* The names they load: "a", "a.b" and "b".
LoadNames == {<<"a">>, <<"a", ".", "b">>, <<"b">>}

NextDomain ==
    \/ \E id \in NodeIds, d \in DomainNames :
          kg_put_node(PutNodeCall(id, [domain |-> d]))
    \/ \E id \in NodeIds : kg_delete_node(id)
    \/ \E name \in LoadNames, depth \in {"full", "index"} :
          kg_load_domain([name |-> name, depth |-> depth])

SpecDomain == Init /\ [][NextDomain]_vars

(* ------------------------------ traversals ------------------------------ *)

GraphIds == {"n1", "n2", "n3", "n4"}

\* The edges the callers draw: a path n1 - n2 - n3 - n4, a second relation
\* on n1 -> n2, the reverse edge n2 -> n1, a self-loop on n1, and n3 -> n1
\* closing a cycle.
GraphEdgeKeys ==
    {<<"n1", "n2", "r">>, <<"n1", "n2", "s">>, <<"n2", "n1", "r">>,
     <<"n2", "n3", "r">>, <<"n3", "n4", "s">>,
     <<"n1", "n1", "r">>, <<"n3", "n1", "r">>}

NextGraph ==
    \/ \E id \in GraphIds : kg_put_node(PutNodeCall(id, NoArgs))
    \/ \E k \in GraphEdgeKeys : kg_put_edge(PutEdgeCall(k[1], k[2], k[3], NoArgs))
    \/ \E id \in GraphIds, hops \in 0..MaxHops :
          kg_get([id |-> id, hops |-> hops])
    \/ \E id \in GraphIds, max_hops \in 0..MaxHops, rf \in {"", "r"} :
          kg_traverse([start_id |-> id, max_hops |-> max_hops,
                       relation_filter |-> rf])

SpecGraph == Init /\ [][NextGraph]_vars

(* ------------------------------- booting -------------------------------- *)

\* The values the callers write to session_count: "3", "9", " 7", "-1"
\* and "x".
CountTexts == {<<"3">>, <<"9">>, <<" ", "7">>, <<"-", "1">>, <<"x">>}

BootDomains == {<<"m", "e", "t", "a">>, <<"a">>, <<>>}

NextBoot ==
    \/ \E ie \in BOOLEAN : kg_boot([include_edges |-> ie])
    \/ \E v \in CountTexts : kg_state([key |-> "session_count", value |-> v])
    \/ kg_state([key |-> "focus", value |-> <<"g">>])
    \/ \E id \in {"n1", "n2"}, d \in BootDomains :
          kg_put_node(PutNodeCall(id, [domain |-> d]))
    \/ kg_put_edge(PutEdgeCall("n1", "n2", "r", NoArgs))
    \/ \E c \in StoreDocs : kg_doc_create(c)

SpecBoot == Init /\ [][NextBoot]_vars

(* ------------------------------ edge upserts ---------------------------- *)

EdgeKeys == {<<"n1", "n2", "r">>, <<"n1", "n2", "s">>, <<"n2", "n1", "r">>}

\* What the callers pass besides the key: nothing, a weight, a note, both.
EdgeGivens ==
    {NoArgs, [weight |-> 2], [note |-> "x"], [weight |-> 2, note |-> "x"]}

NextEdge ==
    \/ \E id \in {"n1", "n2"} : kg_put_node(PutNodeCall(id, NoArgs))
    \/ \E k \in EdgeKeys, g \in EdgeGivens :
          kg_put_edge(PutEdgeCall(k[1], k[2], k[3], g))
    \/ \E k \in EdgeKeys : kg_delete_edge(EdgeSpec(k))
    \/ kg_bulk([edges |-> <<EdgeSpec(<<"n1", "n2", "r">>) @@ [weight |-> 3],
                            EdgeSpec(<<"n1", "n2", "r">>) @@ [note |-> "y"]>>])
    \/ kg_delete_node("n2")

SpecEdge == Init /\ [][NextEdge]_vars

(* ----------------------- loading a domain's edges ----------------------- *)

\* The domains "x", "x.y" and "b".
LoadDomains == {<<"x">>, <<"x", ".", "y">>, <<"b">>}

LoadEdgeKeys ==
    {<<"n1", "n2", "contains">>, <<"n2", "n3", "contains">>,
     <<"n3", "n1", "contains">>}

NextLoad ==
    \/ \E id \in NodeIds, d \in LoadDomains :
          kg_put_node(PutNodeCall(id, [domain |-> d]))
    \/ \E k \in LoadEdgeKeys : kg_put_edge(PutEdgeCall(k[1], k[2], k[3], NoArgs))
    \/ \E name \in LoadDomains, depth \in {"full", "index"} :
          kg_load_domain([name |-> name, depth |-> depth])

SpecLoad == Init /\ [][NextLoad]_vars

(* --------------------------- bulk node specs ---------------------------- *)

\* A node with no attribute at its default.
RichGiven ==
    [type |-> "model", summary |-> "s1", bands |-> Text(<<1, 3>>),
     domain |-> <<"a">>, status |-> "deep", kai_note |-> "k1",
     meta |-> Text(<< <<"k", 1>> >>)]

\* Batches of node specs: every key omitted; some supplied, one of them
\* empty; all supplied; two specs for one id.
BulkSpecs ==
    {[nodes |-> <<[id |-> "n1"]>>],
     [nodes |-> <<[id |-> "n1", summary |-> "s2", type |-> "",
                   meta |-> << <<"j", 2>> >>]>>],
     [nodes |-> <<[id |-> "n2", type |-> "person", summary |-> "s2",
                   bands |-> <<2>>, domain |-> <<"b">>, status |-> "seed",
                   kai_note |-> "", meta |-> <<>>]>>],
     [nodes |-> <<[id |-> "n1", status |-> "verified"],
                  [id |-> "n1", kai_note |-> "k2"]>>]}

NextBulk ==
    \/ Tick
    \/ \E id \in {"n1", "n2"} : kg_put_node(PutNodeCall(id, RichGiven))
    \/ \E ops \in BulkSpecs : kg_bulk(ops)
    \/ kg_delete_node("n1")

SpecBulk == Init /\ [][NextBulk]_vars

(* --------------------------- moving to a domain ------------------------- *)

\* The calls: the unassigned domain for n1 and an id never stored; "a"
\* for n2; "b" for both, n1 listed twice.
SetDomainCalls ==
    {[domain |-> <<>>, node_ids |-> <<"n1", "n3">>],
     [domain |-> <<"a">>, node_ids |-> <<"n2">>],
     [domain |-> <<"b">>, node_ids |-> <<"n1", "n2", "n1">>]}

NextSetDomain ==
    \/ Tick
    \/ kg_put_node(PutNodeCall("n1", RichGiven))
    \/ kg_put_node(PutNodeCall("n2", NoArgs))
    \/ kg_put_edge(PutEdgeCall("n1", "n2", "r", NoArgs))
    \/ \E c \in SetDomainCalls : kg_bulk_set_domain(c)

SpecSetDomain == Init /\ [][NextSetDomain]_vars

(* ----------------------- calls on what is not there -------------------- *)

MissingEdgeKeys ==
    {<<"n1", "n2", "r">>, <<"n2", "n1", "s">>, <<"n2", "n2", "r">>}

DocIds == {"d1", "d2"}

NextMissing ==
    \/ \E id \in {"n1", "n2"} : kg_put_node(PutNodeCall(id, NoArgs))
    \/ \E k \in MissingEdgeKeys :
          kg_put_edge(PutEdgeCall(k[1], k[2], k[3], NoArgs))
    \/ \E id \in {"n1", "n2"} : kg_delete_node(id)
    \/ \E id \in NodeIds, max_hops \in -1..MaxHops, rf \in {"", "r"} :
          kg_traverse([start_id |-> id, max_hops |-> max_hops,
                       relation_filter |-> rf])
    \/ \E id \in NodeIds, hops \in {0, 1} : kg_get([id |-> id, hops |-> hops])
    \/ \E c \in StoreDocs : kg_doc_create(c)
    \/ \E id \in DocIds : kg_doc_read(id)
    \/ \E id \in DocIds, g \in {NoArgs, [node_ids |-> Text(<<"n2">>)]} :
          kg_doc_append(DocAppendCall(id, <<"y">>, g))
    \/ \E id \in DocIds : kg_doc_delete(id)

SpecMissing == Init /\ [][NextMissing]_vars

(* ------------------------- appending to documents ----------------------- *)

\* Documents as created: node ids with a repetition, and none.
AppendDocs ==
    {[doc_id |-> "d1", title |-> "t", session_number |-> 1,
      content |-> <<"x">>, node_ids |-> Text(<<"n1", "n1">>)],
     [doc_id |-> "d2", title |-> "u", session_number |-> 0,
      content |-> <<>>, node_ids |-> BareText]}

\* What an append passes for node_ids: nothing, "", an id already there,
\* ids with a repetition and a new one.
AppendGivens ==
    {NoArgs, [node_ids |-> EmptyText], [node_ids |-> Text(<<"n1">>)],
     [node_ids |-> Text(<<"n2", "n2", "n1">>)]}

NextDoc ==
    \/ \E c \in AppendDocs : kg_doc_create(c)
    \/ \E x \in {<<>>, <<"y">>}, g \in AppendGivens :
          kg_doc_append(DocAppendCall("d1", x, g))
    \/ kg_doc_delete("d2")

SpecDoc == Init /\ [][NextDoc]_vars

(* ---------------------------- the domain tree --------------------------- *)

\* The domains the callers file nodes under: "", "a", "a.b", "b.a" and
\* ".x".
TreeDomains ==
    {<<>>, <<"a">>, <<"a", ".", "b">>, <<"b", ".", "a">>, <<".", "x">>}

NextTree ==
    \/ \E id \in NodeIds, d \in TreeDomains :
          kg_bulk([nodes |-> <<[id |-> id, domain |-> d]>>])
    \/ \E id \in NodeIds : kg_delete_node(id)
    \/ kg_list_domains

SpecTree == Init /\ [][NextTree]_vars

(* -------------------------- overlapping callers ------------------------- *)
(* Two server processes on one file.  sqlite3 runs a SELECT outside any    *)
(* transaction and opens one (BEGIN) only before an INSERT, UPDATE, DELETE *)
(* or REPLACE; a handler with one such statement commits right after it.   *)
(* So a handler is, to the other process, its SELECTs one by one, each on  *)
(* the database as committed at that moment, and then its write.           *)

\* Process p ends its call: the store becomes out.db, last records the
\* call as Apply does, and log is the history from here on.
Finish(p, op, out, log) ==
    /\ nodes' = out.db.nodes
    /\ edges' = out.db.edges
    /\ state' = out.db.state
    /\ documents' = out.db.documents
    /\ last' = [op |-> op, call |-> calls[p].call, ok |-> out.ok,
                ret |-> out.ret,
                gone |-> [nodes |-> Cardinality(nodes \ out.db.nodes),
                          edges |-> Cardinality(edges \ out.db.edges)]]
    /\ calls' = [calls EXCEPT ![p] = Idle]
    /\ done' = log
    /\ UNCHANGED clock

\* Process p goes on to the next statement of its handler.
Goto(p, c) ==
    /\ calls' = [calls EXCEPT ![p] = c]
    /\ UNCHANGED <<nodes, edges, state, documents, clock, last, done>>

\* kg_boot, SELECT key,value FROM state
BootSelectState(p, c) ==
    /\ calls[p].pc = "idle"
    /\ done.boots < MaxCalls
    /\ Goto(p, [pc |-> "boot_nodes", call |-> c,
                snap |-> [state |-> state, nodes |-> {}, edges |-> {},
                          documents |-> {}]])

\* kg_boot, the domain index and the meta nodes: SELECT ... FROM nodes
BootSelectNodes(p) ==
    /\ calls[p].pc = "boot_nodes"
    /\ Goto(p, [calls[p] EXCEPT !.pc = "boot_edges", !.snap.nodes = nodes])

\* kg_boot, SELECT COUNT(*) FROM edges
BootSelectEdges(p) ==
    /\ calls[p].pc = "boot_edges"
    /\ Goto(p, [calls[p] EXCEPT !.pc = "boot_docs", !.snap.edges = edges])

\* kg_boot, SELECT * FROM documents
BootSelectDocs(p) ==
    /\ calls[p].pc = "boot_docs"
    /\ Goto(p, [calls[p] EXCEPT !.pc = "boot_write",
                                !.snap.documents = documents])

\* kg_boot, the counter computed from the state it read, INSERT OR REPLACE
\* INTO state and the commit.
BootWrite(p) ==
    /\ calls[p].pc = "boot_write"
    /\ LET r == BootRun(calls[p].snap, calls[p].call, clock)
           row == {x \in r.db.state : x.key = "session_count"}
       IN IF r.ok
          THEN Finish(p, "kg_boot",
                      Commit([Db EXCEPT !.state =
                                {x \in @ : x.key # "session_count"} \cup row],
                             r.ret),
                      [done EXCEPT !.boots = @ + 1])
          ELSE Finish(p, "kg_boot", Raise("ValueError"), done)

\* kg_put_node, up to SELECT * FROM nodes WHERE id=?
PutNodeSelect(p, c) ==
    /\ calls[p].pc = "idle"
    /\ Goto(p, [pc |-> "put_node_write", call |-> c, now |-> clock,
                ex |-> SelectNode(Db, c.id)])

\* kg_put_node, the branch on the row it read: UPDATE nodes SET ... WHERE
\* id=? on whatever row has the id now, or INSERT (IntegrityError when
\* the id has been taken since), and the commit.
PutNodeWrite(p) ==
    /\ calls[p].pc = "put_node_write"
    /\ LET c == calls[p].call
           ex == calls[p].ex
           cur == SelectNode(Db, c.id)
           keys == {<<c.id, k>> : k \in DictKeys(JsonLoadsDict(c.meta))}
       IN IF ex # {}
          THEN LET u == PutNodeU(FetchOne(ex), c, calls[p].now)
               IN Finish(p, "kg_put_node",
                    Commit([Db EXCEPT !.nodes =
                              (@ \ cur) \cup {SqlUpdate(r, u) : r \in cur}],
                           [op |-> "updated", id |-> c.id,
                            domain |-> SqlUpdate(FetchOne(ex), u).domain]),
                    [done EXCEPT !.keys = @ \cup keys])
          ELSE IF cur # {}
               THEN Finish(p, "kg_put_node", Raise("IntegrityError"), done)
               ELSE Finish(p, "kg_put_node",
                      Commit([Db EXCEPT !.nodes =
                                @ \cup {PutNodeInsert(c, calls[p].now)}],
                             [op |-> "created", id |-> c.id,
                              domain |-> c.domain]),
                      [done EXCEPT !.keys = @ \cup keys])

\* kg_doc_append, SELECT * FROM documents WHERE id=?
DocAppendSelect(p, c) ==
    /\ calls[p].pc = "idle"
    /\ Len(done.appends) < MaxCalls
    /\ AppendFits(Db, c)
    /\ Goto(p, [pc |-> "doc_append_write", call |-> c,
                row |-> SelectDoc(Db, c.id)])

\* kg_doc_append, the branch on the row it read: the error value, or
\* UPDATE documents SET ... WHERE id=? and the commit.
DocAppendWrite(p) ==
    /\ calls[p].pc = "doc_append_write"
    /\ LET c == calls[p].call
           cur == SelectDoc(Db, c.id)
       IN IF calls[p].row = {}
          THEN Finish(p, "kg_doc_append",
                      Commit(Db, [error |-> <<"doc_not_found", c.id>>]), done)
          ELSE LET u == DocAppendU(FetchOne(calls[p].row), c, clock)
               IN Finish(p, "kg_doc_append",
                    Commit([Db EXCEPT !.documents =
                              (@ \ cur) \cup {SqlUpdate(r, u) : r \in cur}],
                           DocAppendRet(c, u)),
                    [done EXCEPT !.appends = Append(@, c.id)])

\* What the overlapping callers ask for: boots, two meta keys on one
\* node, a line appended to one document.
OverlapMetas == {Text(<< <<"k", 1>> >>), Text(<< <<"j", 1>> >>)}

OverlapContents == {<<"y">>}

NextOverlap ==
    \/ \E p \in Procs : BootSelectState(p, [include_edges |-> FALSE])
    \/ \E p \in Procs : BootSelectNodes(p)
    \/ \E p \in Procs : BootSelectEdges(p)
    \/ \E p \in Procs : BootSelectDocs(p)
    \/ \E p \in Procs : BootWrite(p)
    \/ \E p \in Procs, t \in OverlapMetas :
          PutNodeSelect(p, PutNodeCall("n1", [meta |-> t]))
    \/ \E p \in Procs : PutNodeWrite(p)
    \/ \E p \in Procs, x \in OverlapContents :
          DocAppendSelect(p, DocAppendCall("d1", x, NoArgs))
    \/ \E p \in Procs : DocAppendWrite(p)
    \/ \E c \in StoreDocs :
          (\E p \in Procs : calls[p].pc = "idle") /\ kg_doc_create(c)

SpecOverlap == Init /\ [][NextOverlap]_vars

(* ------------------------------- claims --------------------------------- *)

HasNode(id) == \E n \in nodes : n.id = id

\* Every stored edge joins two stored nodes.
RefInt == \A e \in edges : HasNode(e.source_id) /\ HasNode(e.target_id)

\* A kg_put_edge step naming a missing endpoint raises and changes neither
\* table.
DanglingPutEdgeFails ==
    (/\ last'.op = "kg_put_edge"
     /\ ~(HasNode(last'.call.source_id) /\ HasNode(last'.call.target_id)))
    => (~last'.ok /\ nodes' = nodes /\ edges' = edges)

\* C2: in every reachable state both endpoints of every stored edge are ids
\* of stored nodes, and a kg_put_edge call whose source_id or target_id
\* names no stored node fails and leaves nodes and edges unchanged.
C2_RefIntegrity == []RefInt /\ [][DanglingPutEdgeFails]_vars

\* C2 witness: a kg_put_edge naming a missing endpoint has just been
\* refused in a store that holds edges.
C2_Witness ==
    /\ last.op = "kg_put_edge"
    /\ ~last.ok
    /\ ~HasNode(last.call.target_id)
    /\ HasNode(last.call.source_id)
    /\ edges # {}

\* What kg_delete_node(id) does in a step.
DeleteNodeEffect ==
    last'.op = "kg_delete_node" =>
      LET id == last'.call.id
      IN /\ last'.ok
         /\ last'.ret = [op |-> "deleted", id |-> id]
         /\ nodes' = {n \in nodes : n.id # id}
         /\ edges' = {e \in edges : e.source_id # id /\ e.target_id # id}
         /\ documents' = documents
         /\ state' = state
         /\ ~HasNode(id) => (nodes' = nodes /\ edges' = edges)

\* C3: kg_delete_node(id) removes the node id and exactly the edges whose
\* source or target is id, leaves every other node and edge, all documents
\* and all session state unchanged; with no node id it returns its success
\* value and the whole store is unchanged.
C3_DeleteCascade == [][DeleteNodeEffect]_vars

\* C3 witness: a delete has just taken a node and two or more of its edges
\* out of a store that still holds nodes, edges and a document citing the
\* deleted node.
C3_Witness ==
    /\ last.op = "kg_delete_node"
    /\ last.gone.nodes = 1
    /\ last.gone.edges >= 2
    /\ edges # {}
    /\ \E d \in documents : last.call.id \in Range(JsonLoadsList(d.node_ids))

\* The row of node id in a nodes table, and in the current one.
RowIn(ns, id) == CHOOSE n \in ns : n.id = id

NodeRow(id) == RowIn(nodes, id)

ScalarFields == {"type", "summary", "status", "kai_note", "domain"}

\* The argument for field f is the empty string.
EmptyArg(c, f) == IF f = "domain" THEN c[f] = <<>> ELSE c[f] = ""

\* A kg_put_node step on an existing node keeps every scalar field that
\* was omitted or passed empty.
OmittedScalarsKept ==
    (last'.op = "kg_put_node" /\ HasNode(last'.call.id)) =>
      \A f \in ScalarFields :
         (f \notin last'.call.given \/ EmptyArg(last'.call, f))
         => RowIn(nodes', last'.call.id)[f] = RowIn(nodes, last'.call.id)[f]

\* C1: on an existing node, each scalar field (type, summary, status,
\* kai_note, domain) the caller of kg_put_node omitted or passed as empty
\* keeps the value it had before the call.
C1_PartialMerge == [][OmittedScalarsKept]_vars

\* The map a JSON object text denotes: each key with its last value.
TextMap(t) ==
    LET keys == {t.body[i][1] : i \in DOMAIN t.body}
        LastAt(k) == CHOOSE i \in DOMAIN t.body :
                        /\ t.body[i][1] = k
                        /\ \A j \in DOMAIN t.body : t.body[j][1] = k => j <= i
    IN [k \in keys |-> t.body[LastAt(k)][2]]

\* A kg_put_node step on an existing node lays the supplied pairs over the
\* stored meta; an empty or omitted meta leaves the stored map as it was.
MetaOverlaid ==
    (last'.op = "kg_put_node" /\ HasNode(last'.call.id)) =>
      LET old == TextMap(RowIn(nodes, last'.call.id).meta)
          new == TextMap(RowIn(nodes', last'.call.id).meta)
          sup == TextMap(last'.call.meta)
      IN /\ DOMAIN new = DOMAIN old \cup DOMAIN sup
         /\ \A k \in DOMAIN sup : new[k] = sup[k]
         /\ \A k \in DOMAIN old \ DOMAIN sup : new[k] = old[k]

\* C4: for an existing node, kg_put_node with a non-empty meta map stores
\* the previous meta overlaid with the supplied pairs (supplied keys take
\* the supplied value, the other stored keys keep theirs); an empty or
\* omitted meta leaves the stored meta unchanged.
C4_MetaMerge == [][MetaOverlaid]_vars

\* C4 witness: an update has just supplied the single key k, and the
\* stored meta holds k with the supplied value beside an older key j.
C4_Witness ==
    /\ last.op = "kg_put_node"
    /\ last.ret.op = "updated"
    /\ DOMAIN TextMap(last.call.meta) = {"k"}
    /\ DOMAIN TextMap(NodeRow(last.call.id).meta) = {"j", "k"}
    /\ TextMap(NodeRow(last.call.id).meta)["k"] = TextMap(last.call.meta)["k"]

Ids(ns) == {n.id : n \in ns}

\* The ids a successful mutating call is made on.
Targets(l) ==
    IF l.op = "kg_put_node" THEN {l.call.id}
    ELSE IF l.op = "kg_bulk"
         THEN {n.id : n \in Range(Get(l.call, "nodes", <<>>))}
    ELSE IF l.op = "kg_bulk_set_domain" THEN Range(l.call.node_ids)
    ELSE {}

\* One step in the life of the node rows (the clock never runs backwards).
NodeStamps ==
    /\ \A id \in Ids(nodes') : Cardinality({n \in nodes' : n.id = id}) = 1
    /\ last'.op \in {"kg_put_node", "kg_bulk", "kg_bulk_set_domain"}
          => Ids(nodes) \subseteq Ids(nodes')
    /\ \A id \in Ids(nodes) \cap Ids(nodes') :
          /\ RowIn(nodes', id).created_at = RowIn(nodes, id).created_at
          /\ RowIn(nodes', id).updated_at >= RowIn(nodes, id).updated_at
    /\ \A id \in Ids(nodes') \ Ids(nodes) :
          /\ RowIn(nodes', id).created_at = clock'
          /\ RowIn(nodes', id).updated_at = clock'
    /\ (last'.op # "tick" /\ last'.ok) =>
          \A id \in Targets(last') \cap Ids(nodes') :
             RowIn(nodes', id).updated_at = clock'

\* C10: from its creation to its deletion, across kg_put_node, kg_bulk and
\* kg_bulk_set_domain, a node keeps its id and its created_at, its
\* updated_at never decreases and every successful mutating call on it
\* sets it to the call time; created_at = updated_at at creation.
C10_Stamps == [][NodeStamps]_vars

\* C10 witness: kg_bulk has just rewritten a node created earlier, whose
\* created_at is still the earlier time and whose updated_at is now.
C10_Witness ==
    /\ last.op = "kg_bulk"
    /\ last.ok
    /\ \E n \in nodes : /\ n.id \in Targets(last)
                       /\ n.created_at < n.updated_at
                       /\ n.updated_at = clock

IsPrefix(p, t) == Len(p) <= Len(t) /\ SubSeq(t, 1, Len(p)) = p

\* The nodes filed under name or under name + "." + anything.
UnderDomain(name) ==
    {n \in nodes : n.domain = name \/ IsPrefix(name \o <<".">>, n.domain)}

\* C5: kg_load_domain(name) selects exactly the nodes whose domain equals
\* name or starts with name followed by "."; a node whose domain only has
\* name as a character prefix is in none of nodes, node_count, sub_domains.
C5_DotBoundary ==
    last.op = "kg_load_domain" =>
      /\ {v.id : v \in Range(last.ret.nodes)} = Ids(UnderDomain(last.call.name))
      /\ last.ret.node_count = Cardinality(UnderDomain(last.call.name))
      /\ {d.name : d \in Range(last.ret.sub_domains)}
            = {n.domain : n \in UnderDomain(last.call.name)} \ {last.call.name}

\* The stored edges a walk restricted to relation rf may use (all of them
\* for rf = "").
Usable(rf) == {e \in edges : rf = "" \/ e.relation = rf}

RECURSIVE Ball(_, _, _)
\* The ids at undirected distance at most k from the set S over Usable(rf).
Ball(S, k, rf) ==
    IF k <= 0 THEN S
    ELSE Ball(S \cup {e.target_id : e \in {x \in Usable(rf) : x.source_id \in S}}
                \cup {e.source_id : e \in {x \in Usable(rf) : x.target_id \in S}},
              k - 1, rf)

\* The usable edges with an endpoint at distance less than k from id: the
\* edges a walk of k rounds comes across.
Encountered(id, k, rf) ==
    IF k <= 0 THEN {}
    ELSE {e \in Usable(rf) : \/ e.source_id \in Ball({id}, k - 1, rf)
                             \/ e.target_id \in Ball({id}, k - 1, rf)}

\* The last call was a traversal that returned a result, and what it walked.
Walked ==
    /\ last.op \in {"kg_get", "kg_traverse"}
    /\ "error" \notin DOMAIN last.ret

WalkStart == IF last.op = "kg_get" THEN last.call.id ELSE last.call.start_id

WalkRounds ==
    IF last.op = "kg_get" THEN Min(last.call.hops, 3) ELSE last.call.max_hops

WalkFilter == IF last.op = "kg_get" THEN "" ELSE last.call.relation_filter

\* C6: the edge list kg_get and kg_traverse return holds no two entries
\* with the same (source, relation, target), and every stored edge the
\* walk came across is in it exactly once.
C6_EdgesDeduplicated ==
    Walked =>
      LET es == last.ret.edges
      IN /\ \A i, j \in DOMAIN es : EdgeKey(es[i]) = EdgeKey(es[j]) => i = j
         /\ \A e \in Encountered(WalkStart, WalkRounds, WalkFilter) :
               Cardinality({i \in DOMAIN es : es[i] = EdgeView(e)}) = 1

\* C6 witness: a walk has just returned a self-loop and two edges on the
\* same pair of nodes under different relations, each come across from
\* both of its ends.
C6_Witness ==
    /\ Walked
    /\ WalkRounds >= 2
    /\ \E i, j, k \in DOMAIN last.ret.edges :
          /\ last.ret.edges[i].src = last.ret.edges[i].tgt
          /\ last.ret.edges[j].src = last.ret.edges[k].src
          /\ last.ret.edges[j].tgt = last.ret.edges[k].tgt
          /\ last.ret.edges[j].rel # last.ret.edges[k].rel

\* C7: for an existing start node, max_hops >= 0 and any relation_filter,
\* kg_traverse returns exactly the nodes at undirected distance at most
\* max_hops from start_id over the edges of that relation (all edges for
\* an empty filter); node_count is their number and no node is visited
\* twice.
C7_TraverseBall ==
    (last.op = "kg_traverse" /\ HasNode(last.call.start_id)
        /\ last.call.max_hops >= 0) =>
      LET ball == Ball({last.call.start_id}, last.call.max_hops,
                       last.call.relation_filter)
          vs == last.ret.visits
      IN /\ DOMAIN last.ret.nodes = ball
         /\ \A id \in ball : last.ret.nodes[id] = NodeView(NodeRow(id))
         /\ last.ret.node_count = Cardinality(ball)
         /\ \A i, j \in DOMAIN vs : vs[i] = vs[j] => i = j

\* C7 witness: a filtered traversal of two hops has just returned three
\* nodes and left out a stored node that only an edge of another relation
\* reaches.
C7_Witness ==
    /\ last.op = "kg_traverse"
    /\ last.call.relation_filter = "r"
    /\ last.call.max_hops = 2
    /\ last.ret.node_count = 3
    /\ \E n \in nodes :
          /\ n.id \notin DOMAIN last.ret.nodes
          /\ n.id \in Ball({last.call.start_id}, 1, "")

\* C8: for an existing seed and hops in 0..3, kg_get returns as neighbors
\* exactly the nodes at undirected distance 1..hops from the seed, and as
\* edges exactly the stored edges with an endpoint at distance less than
\* hops from the seed.
C8_GetNeighborhood ==
    (last.op = "kg_get" /\ HasNode(last.call.id)
        /\ last.call.hops \in 0..3) =>
      LET id == last.call.id
          near == Ball({id}, last.call.hops, "") \ {id}
      IN /\ DOMAIN last.ret.neighbors = near
         /\ \A n \in near : last.ret.neighbors[n] = NodeView(NodeRow(n))
         /\ Range(last.ret.edges)
               = {EdgeView(e) : e \in Encountered(id, last.call.hops, "")}

\* C8 witness: kg_get with hops = 3 has just returned three neighbours,
\* the farthest at distance 3, and an edge that joins two nodes it had
\* already visited.
C8_Witness ==
    /\ last.op = "kg_get"
    /\ "node" \in DOMAIN last.ret
    /\ last.call.hops = 3
    /\ Cardinality(DOMAIN last.ret.neighbors) = 3
    /\ Ball({last.call.id}, 2, "") # Ball({last.call.id}, 3, "")
    /\ \E e \in Range(last.ret.edges) :
          /\ e.src # last.call.id
          /\ e.tgt = last.call.id

\* C9: kg_get(id, hops=0) on an existing node returns the node's record,
\* no edges and no neighbours, whatever edges the node has.
C9_GetZeroHops ==
    (last.op = "kg_get" /\ HasNode(last.call.id) /\ last.call.hops = 0) =>
      /\ last.ret.node = NodeView(NodeRow(last.call.id))
      /\ last.ret.edges = <<>>
      /\ DOMAIN last.ret.neighbors = {}

\* C9 witness: kg_get with hops = 0 has just answered for a node that has
\* a self-loop, an outgoing and an incoming edge.
C9_Witness ==
    /\ last.op = "kg_get"
    /\ last.call.hops = 0
    /\ "node" \in DOMAIN last.ret
    /\ \E e \in edges : e.source_id = last.call.id /\ e.target_id = last.call.id
    /\ \E e \in edges : e.source_id = last.call.id /\ e.target_id # last.call.id
    /\ \E e \in edges : e.source_id # last.call.id /\ e.target_id = last.call.id

\* The stored session_count holds an integer.
CountStored(st) == StoredCount(st).ok

\* One step in the life of session_count: kg_boot on a stored integer
\* commits and stores its successor in decimal; nothing but kg_boot and a
\* kg_state write to the key changes the stored value.
BootIncrements ==
    /\ (last'.op = "kg_boot" /\ CountStored(state)) =>
          /\ last'.ok
          /\ \E r \in state' :
                /\ r.key = "session_count"
                /\ r.value = StrOf(StoredCount(state).v + 1)
          /\ StoredCount(state').v = StoredCount(state).v + 1
          /\ Cardinality({r \in state' : r.key = "session_count"}) = 1
    /\ ~(\/ last'.op = "kg_boot"
         \/ last'.op = "kg_state" /\ last'.call.key = "session_count") =>
          {r.value : r \in {x \in state' : x.key = "session_count"}}
             = {r.value : r \in {x \in state : x.key = "session_count"}}

\* C11: every kg_boot call on a stored integer session_count persists that
\* integer plus one (so n calls with no kg_state write to the key between
\* them add n; "3" becomes "4"), and no other operation changes the key.
C11_BootCounts == [][BootIncrements]_vars

\* C11 witness: kg_boot has just read session_count "4", itself the result
\* of a boot, and the store now holds "5".
C11_Witness ==
    /\ last.op = "kg_boot"
    /\ last.ok
    /\ last.ret.state["session_count"] = <<"4">>
    /\ \E r \in state : r.key = "session_count" /\ r.value = <<"5">>

\* The node and edge specifications of a batch.
BatchNodes(ops) == Range(Get(ops, "nodes", <<>>))

BatchEdges(ops) == Range(Get(ops, "edges", <<>>))

\* Some specification of the batch cannot be applied to the node table ns:
\* a node without "id", an edge without one of its three keys, or an edge
\* one of whose endpoints is neither stored nor a node of the batch.
BatchFails(ops, ns) ==
    LET known == Ids(ns) \cup
                 {n.id : n \in {x \in BatchNodes(ops) : "id" \in DOMAIN x}}
    IN \/ \E n \in BatchNodes(ops) : "id" \notin DOMAIN n
       \/ \E e \in BatchEdges(ops) :
             \/ ~({"source_id", "target_id", "relation"} \subseteq DOMAIN e)
             \/ e.source_id \notin known
             \/ e.target_id \notin known

\* What a kg_bulk step does to the store.
BulkAllOrNothing ==
    last'.op = "kg_bulk" =>
      IF BatchFails(last'.call, nodes)
      THEN /\ ~last'.ok
           /\ nodes' = nodes /\ edges' = edges
           /\ state' = state /\ documents' = documents
      ELSE /\ last'.ok
           /\ last'.ret.nodes = Len(Get(last'.call, "nodes", <<>>))
           /\ last'.ret.edges = Len(Get(last'.call, "edges", <<>>))
           /\ \A n \in BatchNodes(last'.call) : \E r \in nodes' : r.id = n.id
           /\ \A e \in BatchEdges(last'.call) :
                 \E r \in edges' : /\ r.source_id = e.source_id
                                   /\ r.target_id = e.target_id
                                   /\ r.relation = e.relation
                                   /\ r.created_at = clock'

\* C12: kg_bulk is all-or-nothing: when a node or edge specification of
\* the batch fails (a missing required key, an edge endpoint neither
\* stored nor among the batch's nodes) the store after the call is the
\* store before it; when none fails every specification is applied.
C12_BulkAtomic == [][BulkAllOrNothing]_vars

\* C12 witness: a batch has just failed on its last edge, after a node it
\* would have created and an edge it would have drawn; the node is not
\* stored.
C12_Witness ==
    /\ last.op = "kg_bulk"
    /\ ~last.ok
    /\ last.ret.raised = "IntegrityError"
    /\ Len(Get(last.call, "edges", <<>>)) = 2
    /\ \E n \in BatchNodes(last.call) : ~HasNode(n.id)
    /\ nodes # {}

\* The newlines in a text.
Newlines(s) == Cardinality({i \in DOMAIN s : s[i] = "\n"})

\* Every committed read-modify-write shows in the store: the counter
\* counts the boots, every meta key a kg_put_node stored is in its node's
\* meta, and every document holds one newline per append made to it.
NoLostUpdate ==
    /\ StoredCount(state).v = done.boots
    /\ \A ik \in done.keys :
          \E n \in nodes : /\ n.id = ik[1]
                           /\ ik[2] \in DictKeys(JsonLoadsDict(n.meta))
    /\ \A d \in documents :
          Newlines(d.content)
             = Cardinality({i \in DOMAIN done.appends : done.appends[i] = d.id})

\* C13: calls that overlap in time behave as if run in some serial order;
\* kg_boot's increment, kg_put_node's meta merge and kg_doc_append's
\* concatenation never lose an update a concurrent call has committed.
C13_NoLostUpdate == NoLostUpdate

\* The composite key of a stored edge.
KeyOf(e) == <<e.source_id, e.target_id, e.relation>>

\* No two stored edges share a composite key.
OneEdgePerKey == \A e, f \in edges : KeyOf(e) = KeyOf(f) => e = f

\* A kg_put_edge step that commits leaves, under the call's key, one edge
\* with the call's weight and note (1 and "" for those omitted), and every
\* edge under another key as it was.
PutEdgeReplaces ==
    (last'.op = "kg_put_edge" /\ last'.ok) =>
      LET c == last'.call
          k == <<c.source_id, c.target_id, c.relation>>
      IN /\ {[weight |-> e.weight, note |-> e.note] :
                e \in {x \in edges' : KeyOf(x) = k}}
               = {[weight |-> IF "weight" \in c.given THEN c.weight ELSE 1,
                   note |-> IF "note" \in c.given THEN c.note ELSE ""]}
         /\ {e \in edges' : KeyOf(e) # k} = {e \in edges : KeyOf(e) # k}
         /\ nodes' = nodes

\* C14: kg_put_edge on a composite key that already exists replaces weight
\* and note in full with the call's values (1.0 and empty when omitted);
\* in every reachable state there is at most one stored edge per composite
\* key; edges with other keys are unchanged.
C14_EdgeReplace == []OneEdgePerKey /\ [][PutEdgeReplaces]_vars

\* C14 witness: a kg_put_edge that passed neither weight nor note has just
\* replaced an edge that carried both, beside an edge under another key.
C14_Witness ==
    /\ last.op = "kg_put_edge"
    /\ last.ok
    /\ last.call.given = {}
    /\ last.gone.edges = 1
    /\ \E e \in edges : KeyOf(e) # <<last.call.source_id, last.call.target_id,
                                    last.call.relation>>

\* The store of the scenario: n1 under "x", n2 under "x.y", and the one
\* edge n1 -> n2.
LoadScenario ==
    /\ {[id |-> n.id, domain |-> n.domain] : n \in nodes}
          = {[id |-> "n1", domain |-> <<"x">>],
             [id |-> "n2", domain |-> <<"x", ".", "y">>]}
    /\ {KeyOf(e) : e \in edges} = {<<"n1", "n2", "contains">>}

\* C15: kg_load_domain with depth "full" returns exactly the stored edges
\* whose source and target are both among the nodes it selected, each
\* once; with depth "index" it returns no edges; and in the store of the
\* scenario loading "x" returns both nodes, the one edge and the
\* sub-domain "x.y" with count 1.
C15_LoadEdges ==
    last.op = "kg_load_domain" =>
      LET sel == {v.id : v \in Range(last.ret.nodes)}
          es == last.ret.edges
      IN /\ last.call.depth = "full" =>
               /\ Range(es) = {EdgeView(e) : e \in
                                 {x \in edges : /\ x.source_id \in sel
                                                /\ x.target_id \in sel}}
               /\ \A i, j \in DOMAIN es : es[i] = es[j] => i = j
         /\ last.call.depth = "index" => es = <<>>
         /\ last.ret.edge_count = Len(es)
         /\ (LoadScenario /\ last.call.name = <<"x">>
                /\ last.call.depth = "full") =>
               /\ sel = {"n1", "n2"}
               /\ last.ret.node_count = 2
               /\ es = <<[src |-> "n1", rel |-> "contains", tgt |-> "n2",
                          w |-> 1, n |-> ""]>>
               /\ last.ret.sub_domains
                     = <<[name |-> <<"x", ".", "y">>, count |-> 1]>>

\* C15 witness: a full load has just returned two nodes and the edge
\* between them, and left out a stored edge from one of them to a node
\* outside the domain.
C15_Witness ==
    /\ last.op = "kg_load_domain"
    /\ last.call.depth = "full"
    /\ last.ret.node_count = 2
    /\ last.ret.edge_count = 1
    /\ \E e \in edges :
          /\ e.source_id \in {v.id : v \in Range(last.ret.nodes)}
          /\ e.target_id \notin {v.id : v \in Range(last.ret.nodes)}

\* The attributes a node is created with when its spec names none.
CreationDefaults ==
    [type |-> "concept", summary |-> "", bands |-> <<>>, domain |-> <<>>,
     status |-> "seed", kai_note |-> "", meta |-> <<>>]

\* The last spec of a batch for the id.
LastSpecFor(ops, id) ==
    LET ns == Get(ops, "nodes", <<>>)
        i == CHOOSE j \in DOMAIN ns :
                /\ ns[j].id = id
                /\ \A k \in DOMAIN ns : ns[k].id = id => k <= j
    IN ns[i]

\* The attribute f as stored in a row: the two JSON columns by the value
\* their text denotes.
Stored(row, f) == IF f \in {"bands", "meta"} THEN row[f].body ELSE row[f]

\* A kg_bulk step that commits leaves every node it names that existed
\* before with the attributes of its spec, defaults for the omitted ones,
\* its old created_at and the call time as updated_at.
BulkReplacesWholesale ==
    (last'.op = "kg_bulk" /\ last'.ok) =>
      \A id \in Targets(last') \cap Ids(nodes) :
         LET n == LastSpecFor(last'.call, id)
             new == RowIn(nodes', id)
         IN /\ \A f \in DOMAIN CreationDefaults :
                  Stored(new, f) = IF f \in DOMAIN n THEN n[f]
                                   ELSE CreationDefaults[f]
            /\ ~new.bands.empty /\ ~new.meta.empty
            /\ new.created_at = RowIn(nodes, id).created_at
            /\ new.updated_at = clock'

\* C16: a kg_bulk node spec for an existing node replaces every attribute
\* wholesale: type, summary, bands, domain, status, kai_note and meta each
\* become the supplied value, or the creation default when the key is
\* omitted; created_at is preserved and updated_at refreshed.
C16_BulkWholesale == [][BulkReplacesWholesale]_vars

\* C16 witness: a batch whose only spec names nothing but the id has just
\* reset a node created earlier with no attribute at its default.
C16_Witness ==
    /\ last.op = "kg_bulk"
    /\ last.ok
    /\ last.gone.nodes = 1
    /\ \A n \in BatchNodes(last.call) : DOMAIN n = {"id"}
    /\ \E r \in nodes :
          /\ r.id \in Targets(last)
          /\ r.type = "concept"
          /\ r.meta = BareText
          /\ r.created_at < r.updated_at

\* What a kg_bulk_set_domain step does to the store.
SetDomainEffect ==
    last'.op = "kg_bulk_set_domain" =>
      LET listed == Range(last'.call.node_ids)
      IN /\ last'.ok
         /\ Ids(nodes') = Ids(nodes)
         /\ \A n \in nodes : n.id \notin listed => n \in nodes'
         /\ \A n \in nodes : n.id \in listed =>
               [n EXCEPT !.domain = last'.call.domain,
                         !.updated_at = clock'] \in nodes'
         /\ Cardinality(nodes') = Cardinality(nodes)
         /\ edges' = edges
         /\ state' = state /\ documents' = documents

\* C17: kg_bulk_set_domain(domain, node_ids) sets the domain of every
\* listed node that exists to the given string (the empty one too) and
\* refreshes its updated_at, changes no other attribute of it, leaves
\* unlisted nodes and all edges unchanged, and for a listed id that does
\* not exist creates no node and raises no error.
C17_SetDomainFrame == [][SetDomainEffect]_vars

\* C17 witness: a call with the empty domain has just rewritten a stored
\* node and passed over a listed id that is not stored, in a store with
\* an unlisted node and an edge.
C17_Witness ==
    /\ last.op = "kg_bulk_set_domain"
    /\ last.call.domain = <<>>
    /\ last.gone.nodes = 1
    /\ \E id \in Range(last.call.node_ids) : ~HasNode(id)
    /\ \E n \in nodes : /\ n.id \in Range(last.call.node_ids)
                       /\ n.domain = <<>>
                       /\ n.type = "model"
                       /\ n.created_at < n.updated_at
    /\ \E n \in nodes : n.id \notin Range(last.call.node_ids)
    /\ edges # {}

\* C18: kg_traverse with a start_id that names no stored node returns,
\* for every max_hops and relation_filter, a normal result with an empty
\* node map, an empty edge list and both counts 0, never an error.
C18_TraverseMissingStart ==
    (last.op = "kg_traverse" /\ ~HasNode(last.call.start_id)) =>
      /\ last.ok
      /\ "error" \notin DOMAIN last.ret
      /\ DOMAIN last.ret.nodes = {}
      /\ last.ret.edges = <<>>
      /\ last.ret.node_count = 0
      /\ last.ret.edge_count = 0

\* C18 witness: a traversal of two or more hops with no filter has just
\* answered for a start_id that is not stored, in a store with nodes and
\* edges.
C18_Witness ==
    /\ last.op = "kg_traverse"
    /\ ~HasNode(last.call.start_id)
    /\ last.call.max_hops >= 2
    /\ last.call.relation_filter = ""
    /\ last.ret.node_count = 0
    /\ nodes # {}
    /\ edges # {}

\* The entity a call is addressed to is not stored.
Missing(l) ==
    \/ l.op = "kg_get" /\ ~HasNode(l.call.id)
    \/ /\ l.op \in {"kg_doc_read", "kg_doc_append", "kg_doc_delete"}
       /\ ~\E d \in documents : d.id = l.call.id

\* The kind an operation names in its error value.
ErrorKind(op) == IF op = "kg_get" THEN "not_found" ELSE "doc_not_found"

\* A step of a call addressed to a missing entity returns the error value
\* (kind and id stand for the text "<kind>:<id>") and changes nothing.
MissingIsAnError ==
    Missing(last') =>
      /\ last'.ok
      /\ last'.ret = [error |-> <<ErrorKind(last'.op), last'.call.id>>]
      /\ nodes' = nodes /\ edges' = edges
      /\ state' = state /\ documents' = documents

\* C19: kg_get on a missing node id, and kg_doc_read, kg_doc_append and
\* kg_doc_delete on a missing document id, return the error value
\* "<kind>:<id>" as a normal result and leave the whole store unchanged.
C19_MissingEntity == [][MissingIsAnError]_vars

\* C19 witness: kg_doc_append has just answered doc_not_found for an id
\* that is not stored, beside a stored document.
C19_Witness ==
    /\ last.op = "kg_doc_append"
    /\ last.ok
    /\ "error" \in DOMAIN last.ret
    /\ last.ret.error[1] = "doc_not_found"
    /\ ~\E d \in documents : d.id = last.call.id
    /\ documents # {}

\* The row of document id in a documents table.
DocIn(ds, id) == CHOOSE d \in ds : d.id = id

\* What a kg_doc_append step does to a document that exists.
AppendEffect ==
    (last'.op = "kg_doc_append" /\ \E d \in documents : d.id = last'.call.id)
    =>
      LET c == last'.call
          old == DocIn(documents, c.id)
          new == DocIn(documents', c.id)
          was == Range(JsonLoadsList(old.node_ids))
          sup == Range(JsonLoadsList(c.node_ids))
          ids == JsonLoadsList(new.node_ids)
      IN /\ last'.ok
         /\ new.content = old.content \o <<"\n">> \o c.content
         /\ Range(ids) = was \cup sup
         /\ \A i, j \in DOMAIN ids : ids[i] = ids[j] => i = j
         /\ sup \subseteq was => Range(ids) = was
         /\ new.title = old.title
         /\ new.session_number = old.session_number
         /\ new.created_at = old.created_at
         /\ documents' \ {new} = documents \ {old}
         /\ last'.ret = [op |-> "doc_appended", id |-> c.id,
                         len |-> Len(new.content), nodes |-> Len(ids)]

\* C20: kg_doc_append on an existing document sets its content to the
\* previous content, a newline, then the new content, and its node_ids to
\* the union of the previous and the supplied ids with no duplicates;
\* appending ids already there leaves the id set unchanged; title and
\* session_number are never changed by an append.
C20_DocAppend == [][AppendEffect]_vars

\* C20 witness: a second append to a document has just passed ids with a
\* repetition, one of them stored already, and the document now lists
\* two ids, each once, below two appended lines.
C20_Witness ==
    /\ last.op = "kg_doc_append"
    /\ last.ok
    /\ "error" \notin DOMAIN last.ret
    /\ Len(JsonLoadsList(last.call.node_ids)) = 3
    /\ last.ret.nodes = 2
    /\ \E d \in documents : /\ d.id = last.call.id
                           /\ Newlines(d.content) = 2
                           /\ d.title = "t"

\* The first dot-segment of a text: what comes before its first dot.
FirstSegment(d) ==
    LET dots == {i \in DOMAIN d : d[i] = "."}
    IN IF dots = {} THEN d
       ELSE SubSeq(d, 1, (CHOOSE i \in dots : \A j \in dots : i <= j) - 1)

Unassigned == <<"(", "u", "n", "a", "s", "s", "i", "g", "n", "e", "d", ")">>

\* The name kg_list_domains files a node under: its domain, "(unassigned)"
\* for the empty one.
Filed(n) == IF n.domain = <<>> THEN Unassigned ELSE n.domain

\* The entries are one per name.
OnePerName(es) == \A i, j \in DOMAIN es : es[i].name = es[j].name => i = j

\* The statement of C21 on the stored domain values themselves, the root
\* for the empty first segment being allowed the name "(unassigned)".
TreeOverDomains ==
    last.op = "kg_list_domains" =>
      LET roots == last.ret.domains
          segs == {FirstSegment(n.domain) : n \in nodes}
          Under(s) == {n \in nodes : \/ n.domain = s
                                     \/ IsPrefix(s \o <<".">>, n.domain)}
      IN /\ Len(roots) = Cardinality(segs)
         /\ \A s \in segs : \E i \in DOMAIN roots :
               /\ roots[i].name = s \/ (s = <<>> /\ roots[i].name = Unassigned)
               /\ roots[i].count = Cardinality(Under(s))
               /\ OnePerName(roots[i].sub_domains)
               /\ {[name |-> e.name, count |-> e.count] :
                     e \in Range(roots[i].sub_domains)}
                  = {[name |-> n.domain,
                      count |-> Cardinality({x \in nodes : x.domain = n.domain})] :
                       n \in {x \in Under(s) : x.domain # s}}

\* C21 as claimed: kg_list_domains returns exactly one root entry per
\* distinct first dot-segment of the stored domain values; a root's count is
\* the number of nodes whose domain is the root or starts with the root
\* plus "."; sub_domains holds one entry per distinct multi-segment domain
\* under it with its exact count.
C21_TreeOverDomains == TreeOverDomains

\* C21, amended: the same over the names the nodes are filed under, the
\* empty domain being filed under "(unassigned)": one root entry per
\* distinct first dot-segment of those names; a root's count is the number
\* of nodes filed under the root or under a name that starts with the root
\* plus "."; sub_domains holds one entry per distinct such longer name with
\* its exact count; a root no node is filed under still appears when a
\* sub-domain is.
C21_DomainTree ==
    last.op = "kg_list_domains" =>
      LET roots == last.ret.domains
          Under(s) == {n \in nodes : \/ Filed(n) = s
                                     \/ IsPrefix(s \o <<".">>, Filed(n))}
      IN /\ OnePerName(roots)
         /\ {e.name : e \in Range(roots)}
               = {FirstSegment(Filed(n)) : n \in nodes}
         /\ \A e \in Range(roots) :
               /\ e.count = Cardinality(Under(e.name))
               /\ OnePerName(e.sub_domains)
               /\ {[name |-> x.name, count |-> x.count] :
                     x \in Range(e.sub_domains)}
                  = {[name |-> Filed(n),
                      count |-> Cardinality({x \in nodes : Filed(x) = Filed(n)})] :
                       n \in {x \in Under(e.name) : Filed(x) # e.name}}

\* C21 witness: the listing has just returned a root that no node has as
\* its domain, counting the two nodes of its one sub-domain, beside the
\* root of the unassigned nodes.
C21_Witness ==
    /\ last.op = "kg_list_domains"
    /\ \E e \in Range(last.ret.domains) :
          /\ ~\E n \in nodes : n.domain = e.name
          /\ e.count = 2
          /\ Len(e.sub_domains) = 1
    /\ \E e \in Range(last.ret.domains) : e.name = Unassigned

\* What kg_get(id, hops) returns on the store as it is.
GetNow(id, hops) == GetRun(Db, [id |-> id, hops |-> hops]).ret

\* C22: for every stored graph, every existing start node and every hop
\* bound h in 0..3, kg_traverse(start, h) with an empty relation filter
\* and kg_get(start, h) agree: the ids of the traversed nodes are the seed
\* plus the ids of kg_get's neighbors, and the two deduplicated edge lists
\* hold the same (source, relation, target) triples.
C22_TraverseAgreesWithGet ==
    (/\ last.op = "kg_traverse"
     /\ last.call.relation_filter = ""
     /\ last.call.max_hops \in 0..3
     /\ HasNode(last.call.start_id)) =>
      LET g == GetNow(last.call.start_id, last.call.max_hops)
      IN /\ DOMAIN last.ret.nodes
               = {last.call.start_id} \cup DOMAIN g.neighbors
         /\ {EdgeKey(e) : e \in Range(last.ret.edges)}
               = {EdgeKey(e) : e \in Range(g.edges)}
         /\ Len(last.ret.edges) = Len(g.edges)

\* C22 witness: an unfiltered traversal of three hops has just returned
\* four nodes, the farthest at distance 3, and four or more edges, one of
\* them a self-loop on the start.
C22_Witness ==
    /\ last.op = "kg_traverse"
    /\ last.call.relation_filter = ""
    /\ last.call.max_hops = 3
    /\ last.ret.node_count = 4
    /\ last.ret.edge_count >= 4
    /\ Ball({last.call.start_id}, 2, "") # Ball({last.call.start_id}, 3, "")
    /\ \E e \in Range(last.ret.edges) :
          e.src = last.call.start_id /\ e.tgt = last.call.start_id

\* The ids of the nodes a walk returned.
WalkNodes ==
    IF last.op = "kg_get" THEN {last.call.id} \cup DOMAIN last.ret.neighbors
    ELSE DOMAIN last.ret.nodes

\* C23: the result of every traversal is a closed subgraph: each edge
\* kg_get returns has both endpoints among the seed and the returned
\* neighbors, and each edge kg_traverse returns has both endpoints among
\* the returned nodes, whatever the hop bound and the relation filter.
C23_ClosedSubgraph ==
    Walked =>
      \A e \in Range(last.ret.edges) :
         e.src \in WalkNodes /\ e.tgt \in WalkNodes

\* C23 witness: kg_get with hops = 1 has just returned an edge that comes
\* in from a neighbour, and left out a stored node and a stored edge.
C23_Witness ==
    /\ last.op = "kg_get"
    /\ "node" \in DOMAIN last.ret
    /\ last.call.hops = 1
    /\ \E e \in Range(last.ret.edges) :
          e.tgt = last.call.id /\ e.src # last.call.id
    /\ \E n \in nodes : n.id \notin WalkNodes
    /\ \E e \in edges : EdgeView(e) \notin Range(last.ret.edges)

====
